---------------------------- MODULE Spec2Model ----------------------------
(***************************************************************************)
(* Endpoint normalization and dynamic dispatch of swag-mcp.                *)
(*                                                                         *)
(* Four server classes are modelled:                                       *)
(*   SimpleSwagger  SimpleSwaggerMcpServer  (src/src/swagger-mcp-simple.ts)*)
(*   Swagger        SwaggerMcpServer        (src/start-simple-mcp.sh)      *)
(*   SimplePostman  SimplePostmanMcpServer  (src/src/postman-mcp-simple.ts)*)
(*   Postman        PostmanMcpServer        (src/unnamed/part_002)         *)
(*                                                                         *)
(* JavaScript strings are sequences of one-character strings, so that      *)
(* split, replace, includes, case mapping and URL encoding are computed as *)
(* the code computes them.  A JavaScript object (an insertion-ordered map) *)
(* is a sequence of [k, v] entries with pairwise distinct keys.            *)
(***************************************************************************)
EXTENDS Integers, Sequences, FiniteSets, TLC

VARIABLES
    variant,      \* which server class this process runs
    apiBaseUrl,   \* OpenAPI servers: constructor argument
    defaultAuth,  \* constructor argument (NoAuth when not configured)
    loaded,       \* TRUE once a load has registered the tools
    swaggerSpec,  \* OpenAPI servers: the parsed document
    collection,   \* Postman servers: the item tree
    requests,     \* SimplePostman: the parsed request table
    toolNames,    \* Postman: names of the registered tools, in order
    environment,  \* Postman servers: variable table
    call,         \* the last tool call: operation, input, result
    http,         \* transport requests issued by the last tool call
    stage,        \* main(): "starting", "connected" to the transport, or "exited"
    inflight      \* dispatch calls suspended at the transport (await axios)

vars == <<variant, apiBaseUrl, defaultAuth, loaded, swaggerSpec, collection,
          requests, toolNames, environment, call, http, stage, inflight>>

(***************************************************************************)
(* Strings                                                                 *)
(***************************************************************************)
UpperChars == <<"A","B","C","D","E","F","G","H","I","J","K","L","M",
                "N","O","P","Q","R","S","T","U","V","W","X","Y","Z">>
LowerChars == <<"a","b","c","d","e","f","g","h","i","j","k","l","m",
                "n","o","p","q","r","s","t","u","v","w","x","y","z">>
DigitChars == <<"0","1","2","3","4","5","6","7","8","9">>

Range(s) == {s[i] : i \in DOMAIN s}

MinOf(S) == CHOOSE x \in S : \A y \in S : x <= y

PosIn(c, s) == MinOf({i \in DOMAIN s : s[i] = c})

\* String.prototype.toLowerCase / toUpperCase, one character
LowerChar(c) == IF c \in Range(UpperChars) THEN LowerChars[PosIn(c, UpperChars)] ELSE c
UpperChar(c) == IF c \in Range(LowerChars) THEN UpperChars[PosIn(c, LowerChars)] ELSE c

ToLowerCase(s) == [i \in DOMAIN s |-> LowerChar(s[i])]
ToUpperCase(s) == [i \in DOMAIN s |-> UpperChar(s[i])]

\* the regular-expression class \w, and [a-zA-Z0-9_]
IsWordChar(c) == c \in Range(UpperChars) \cup Range(LowerChars) \cup Range(DigitChars) \cup {"_"}

\* the characters encodeURIComponent leaves alone
IsUnreserved(c) == IsWordChar(c) \/ c \in {"-", ".", "!", "~", "*", "'", "(", ")"}

\* the escape sequence encodeURIComponent emits for a reserved character
PercentCode(c) ==
    CASE c = "/" -> <<"%","2","F">>
      [] c = ":" -> <<"%","3","A">>
      [] c = "{" -> <<"%","7","B">>
      [] c = "}" -> <<"%","7","D">>
      [] c = " " -> <<"%","2","0">>
      [] c = "?" -> <<"%","3","F">>
      [] c = "=" -> <<"%","3","D">>
      [] c = "&" -> <<"%","2","6">>
      [] c = "$" -> <<"%","2","4">>
      [] OTHER   -> <<"%", c>>

RECURSIVE EncodeURIComponent(_)
EncodeURIComponent(s) ==
    IF s = <<>> THEN <<>>
    ELSE (IF IsUnreserved(Head(s)) THEN <<Head(s)>> ELSE PercentCode(Head(s)))
         \o EncodeURIComponent(Tail(s))

StartsWith(s, p) == Len(p) <= Len(s) /\ SubSeq(s, 1, Len(p)) = p
EndsWith(s, p)   == Len(p) <= Len(s) /\ SubSeq(s, Len(s) - Len(p) + 1, Len(s)) = p

\* String.prototype.indexOf, 1-based; 0 when absent
IndexOf(s, p) ==
    LET hits == {i \in 1..(Len(s) - Len(p) + 1) : SubSeq(s, i, i + Len(p) - 1) = p}
    IN  IF hits = {} THEN 0 ELSE MinOf(hits)

Includes(s, p) == IndexOf(s, p) # 0

\* String.prototype.replace with a string pattern: the first occurrence only
ReplaceFirst(s, p, r) ==
    LET i == IndexOf(s, p)
    IN  IF i = 0 THEN s
        ELSE SubSeq(s, 1, i - 1) \o r \o SubSeq(s, i + Len(p), Len(s))

\* String.prototype.split on a one-character separator
RECURSIVE Split(_, _)
Split(s, sep) ==
    LET i == IndexOf(s, <<sep>>)
    IN  IF i = 0 THEN <<s>>
        ELSE <<SubSeq(s, 1, i - 1)>> \o Split(SubSeq(s, i + 1, Len(s)), sep)

\* Array.prototype.join
RECURSIVE Join(_, _)
Join(parts, sep) ==
    IF parts = <<>> THEN <<>>
    ELSE IF Len(parts) = 1 THEN parts[1]
    ELSE parts[1] \o sep \o Join(Tail(parts), sep)

\* number of (possibly overlapping) occurrences of p in s
Occurrences(s, p) ==
    Cardinality({i \in 1..(Len(s) - Len(p) + 1) : SubSeq(s, i, i + Len(p) - 1) = p})

(***************************************************************************)
(* JavaScript objects as insertion-ordered maps                            *)
(***************************************************************************)
Keys(m) == {m[i].k : i \in DOMAIN m}

HasKey(m, key) == key \in Keys(m)

Get(m, key) == m[CHOOSE i \in DOMAIN m : m[i].k = key].v

\* obj[key] = value: an existing key keeps its place
Put(m, key, value) ==
    IF HasKey(m, key)
    THEN [i \in DOMAIN m |-> IF m[i].k = key THEN [k |-> key, v |-> value] ELSE m[i]]
    ELSE Append(m, [k |-> key, v |-> value])

\* { ...a, ...b }
RECURSIVE Spread(_, _)
Spread(a, b) ==
    IF b = <<>> THEN a ELSE Spread(Put(a, Head(b).k, Head(b).v), Tail(b))

\* an optional string argument: undefined, or a string
Undefined == [present |-> FALSE, s |-> <<>>]
Str(x)    == [present |-> TRUE, s |-> x]

\* a caller-supplied value: its JavaScript type and what String(value) gives
StringValue(x) == [t |-> "string", s |-> x]
TrueValue      == [t |-> "boolean", s |-> <<"t","r","u","e">>]
StringOf(value) == value.s

(***************************************************************************)
(* AuthConfig and the authentication resolver                              *)
(***************************************************************************)
Authorization == <<"A","u","t","h","o","r","i","z","a","t","i","o","n">>
ApiKeyHeader  == <<"a","p","i","_","k","e","y">>

\* auth argument not supplied / no default configured
NoAuth == [present |-> FALSE, type |-> "none", username |-> <<>>, password |-> <<>>,
           token |-> <<>>, apiKey |-> <<>>, apiKeyName |-> <<>>, apiKeyIn |-> "none"]

AuthOfType(ty) == [NoAuth EXCEPT !.present = TRUE, !.type = ty]
BasicAuth(u, p)         == [AuthOfType("basic") EXCEPT !.username = u, !.password = p]
BearerAuth(tok)         == [AuthOfType("bearer") EXCEPT !.token = tok]
OAuth2Auth(tok)         == [AuthOfType("oauth2") EXCEPT !.token = tok]
ApiKeyAuth(key, nm, in) == [AuthOfType("apiKey") EXCEPT !.apiKey = key, !.apiKeyName = nm,
                                                        !.apiKeyIn = in]

\* a JavaScript string is truthy when it is not empty (and not undefined)
Truthy(x) == x # <<>>

\* Buffer.from(`${u}:${p}`).toString("base64"), kept symbolic
Base64(x) == <<"base64(">> \o x \o <<")">>

BasicHeader(a)  ==
    <<[k |-> Authorization,
       v |-> StringValue(<<"B","a","s","i","c"," ">>
                         \o Base64(a.username \o <<":">> \o a.password))]>>
BearerHeader(a) ==
    <<[k |-> Authorization,
       v |-> StringValue(<<"B","e","a","r","e","r"," ">> \o a.token)]>>

\* auth || this.defaultAuth
AuthOrDefault(auth) == IF auth.present THEN auth ELSE defaultAuth

\* getAuthHeaders of SimpleSwaggerMcpServer, SimplePostmanMcpServer, PostmanMcpServer
getAuthHeaders(auth) ==
    LET authConfig == AuthOrDefault(auth)
    IN  IF ~authConfig.present THEN <<>>
        ELSE CASE authConfig.type = "basic" ->
                    IF Truthy(authConfig.username) /\ Truthy(authConfig.password)
                    THEN BasicHeader(authConfig) ELSE <<>>
               [] authConfig.type = "bearer" ->
                    IF Truthy(authConfig.token) THEN BearerHeader(authConfig) ELSE <<>>
               [] authConfig.type = "apiKey" ->
                    IF Truthy(authConfig.apiKey) /\ Truthy(authConfig.apiKeyName)
                       /\ authConfig.apiKeyIn = "header"
                    THEN <<[k |-> authConfig.apiKeyName, v |-> StringValue(authConfig.apiKey)]>>
                    ELSE <<>>
               [] authConfig.type = "oauth2" ->
                    IF Truthy(authConfig.token) THEN BearerHeader(authConfig) ELSE <<>>
               [] OTHER -> <<>>

\* getAuthQueryParams, the same text in all four classes
getAuthQueryParams(auth) ==
    LET authConfig == AuthOrDefault(auth)
    IN  IF ~authConfig.present THEN <<>>
        ELSE IF authConfig.type = "apiKey" /\ Truthy(authConfig.apiKey)
                /\ Truthy(authConfig.apiKeyName) /\ authConfig.apiKeyIn = "query"
        THEN <<[k |-> authConfig.apiKeyName, v |-> StringValue(authConfig.apiKey)]>>
        ELSE <<>>

\* operation?.security || this.swaggerSpec?.security || []
RequiredSchemes(operation, doc) ==
    IF operation.security.present THEN operation.security.reqs
    ELSE IF doc.security.present THEN doc.security.reqs
    ELSE <<>>

\* getAuthHeaders of SwaggerMcpServer
getAuthHeadersSwagger(auth, operation, doc) ==
    LET authConfig == AuthOrDefault(auth)
    IN  IF ~authConfig.present THEN <<>>
        ELSE IF Len(RequiredSchemes(operation, doc)) = 0 THEN <<>>
        ELSE CASE authConfig.type = "basic" ->
                    IF Truthy(authConfig.username) /\ Truthy(authConfig.password)
                    THEN BasicHeader(authConfig) ELSE <<>>
               [] authConfig.type = "bearer" ->
                    IF Truthy(authConfig.token) THEN BearerHeader(authConfig) ELSE <<>>
               [] authConfig.type = "apiKey" ->
                    IF Truthy(authConfig.apiKey)
                    THEN <<[k |-> ApiKeyHeader, v |-> StringValue(authConfig.apiKey)]>>
                    ELSE <<>>
               [] authConfig.type = "oauth2" ->
                    IF Truthy(authConfig.token) THEN BearerHeader(authConfig) ELSE <<>>
               [] OTHER -> <<>>

(***************************************************************************)
(* OpenAPI documents                                                       *)
(*                                                                         *)
(* A document is [paths, security, securitySchemes]; paths is the ordered  *)
(* list of [path, items], items the ordered list of [method, op] entries   *)
(* of the path item (Object.entries), op the value under the key.          *)
(***************************************************************************)
RefKey == <<"$","r","e","f">>

Absent      == [present |-> FALSE, list |-> <<>>]
Tags(list)  == [present |-> TRUE, list |-> list]
NoSecurity  == [present |-> FALSE, reqs |-> <<>>]
Security(r) == [present |-> TRUE, reqs |-> r]

\* a value that is not an operation object: it has none of the fields read
PlainValue == [truthy |-> TRUE, operationId |-> <<>>, summary |-> <<>>,
               description |-> <<>>, tags |-> Absent, deprecated |-> FALSE,
               parameters |-> <<>>, requestBody |-> <<>>, responses |-> <<>>,
               security |-> NoSecurity]
NullValue  == [PlainValue EXCEPT !.truthy = FALSE]

\* a different fallback id, "{METHOD}-{path}"; C10 must tell it from the code's
OperationIdUpper(method, path, op) ==
    IF Truthy(op.operationId) THEN op.operationId
    ELSE ToUpperCase(method) \o <<"-">> \o path

\* op.operationId || `${method}-${path}`
OperationIdOf(method, path, op) ==
    IF Truthy(op.operationId) THEN op.operationId ELSE method \o <<"-">> \o path

\* the two loops every handler runs: for each path, for each key of the path
\* item, skipping "$ref" and falsy values
Skipped(item) == item.method = RefKey \/ ~item.op.truthy

RECURSIVE Operations(_)
Operations(paths) ==
    IF paths = <<>> THEN <<>>
    ELSE LET kept == SelectSeq(Head(paths).items, LAMBDA it : ~Skipped(it))
         IN  [i \in DOMAIN kept |->
                [path |-> Head(paths).path, method |-> kept[i].method, op |-> kept[i].op,
                 operationId |-> OperationIdOf(kept[i].method, Head(paths).path, kept[i].op)]]
             \o Operations(Tail(paths))

\* input.operationId === operationId ||
\* (input.path === path && input.method?.toLowerCase() === method.toLowerCase())
Matches(input, e) ==
    \/ input.operationId.present /\ input.operationId.s = e.operationId
    \/ /\ input.path.present /\ input.path.s = e.path
       /\ input.method.present /\ ToLowerCase(input.method.s) = ToLowerCase(e.method)

NotFoundTarget == [found |-> FALSE, path |-> <<>>, method |-> <<>>, op |-> NullValue,
                   operationId |-> <<>>]

\* the lookup loop of get_endpoint_details and make_api_call: the first match
FindOperation(paths, input) ==
    LET ops  == Operations(paths)
        hits == {i \in DOMAIN ops : Matches(input, ops[i])}
    IN  IF hits = {} THEN NotFoundTarget
        ELSE LET e == ops[MinOf(hits)]
             IN  [found |-> TRUE, path |-> e.path, method |-> e.method, op |-> e.op,
                  operationId |-> e.operationId]

(***************************************************************************)
(* list_endpoints                                                          *)
(***************************************************************************)
ListEntry(path, item) ==
    [operationId |-> OperationIdOf(item.method, path, item.op),
     method      |-> ToUpperCase(item.method),
     path        |-> path,
     summary     |-> item.op.summary,
     description |-> item.op.description,
     tags        |-> item.op.tags.list,
     deprecated  |-> item.op.deprecated]

\* the two filters of list_endpoints; TRUE when the operation is kept
PassesFilters(input, item) ==
    /\ ~(input.method.present /\ Truthy(input.method.s)
         /\ ToLowerCase(item.method) # ToLowerCase(input.method.s))
    /\ ~(input.tag.present /\ Truthy(input.tag.s)
         /\ (~item.op.tags.present \/ input.tag.s \notin Range(item.op.tags.list)))

\* the inner loop over one path item
RECURSIVE ListItems(_, _, _, _)
ListItems(path, items, input, acc) ==
    IF items = <<>> THEN acc
    ELSE IF Skipped(Head(items)) \/ ~PassesFilters(input, Head(items))
    THEN ListItems(path, Tail(items), input, acc)
    ELSE LET next == Append(acc, ListEntry(path, Head(items)))
         IN  IF Len(next) >= input.limit THEN next
             ELSE ListItems(path, Tail(items), input, next)

\* the outer loop over the paths
RECURSIVE ListPaths(_, _, _)
ListPaths(paths, input, acc) ==
    IF paths = <<>> THEN acc
    ELSE LET next == ListItems(Head(paths).path, Head(paths).items, input, acc)
         IN  IF Len(next) >= input.limit THEN next
             ELSE ListPaths(Tail(paths), input, next)

ListEndpointsResult(doc, input) ==
    LET endpoints == ListPaths(doc.paths, input, <<>>)
    IN  [kind |-> "list", total |-> Len(endpoints), endpoints |-> endpoints]

(***************************************************************************)
(* get_endpoint_details                                                    *)
(***************************************************************************)
EndpointNotFound ==
    [kind |-> "text",
     text |-> "Endpoint not found. Use list_endpoints to see available endpoints."]

\* withSecurity: SwaggerMcpServer also reports the security requirements
EndpointDetailsResult(doc, input, withSecurity) ==
    LET t == FindOperation(doc.paths, input)
        details == [kind        |-> "details",
                    operationId |-> OperationIdOf(t.method, t.path, t.op),
                    method      |-> ToUpperCase(t.method),
                    path        |-> t.path,
                    summary     |-> t.op.summary,
                    description |-> t.op.description,
                    tags        |-> t.op.tags.list,
                    deprecated  |-> t.op.deprecated,
                    parameters  |-> t.op.parameters,
                    requestBody |-> t.op.requestBody,
                    responses   |-> t.op.responses,
                    security    |-> IF withSecurity THEN RequiredSchemes(t.op, doc) ELSE <<>>,
                    securitySchemes |-> IF withSecurity THEN doc.securitySchemes ELSE <<>>]
    IN  IF ~t.found THEN EndpointNotFound ELSE details

(***************************************************************************)
(* search_endpoints of SimpleSwaggerMcpServer                              *)
(***************************************************************************)
SearchText(path, item) ==
    ToLowerCase(Join(<<path, item.op.summary, item.op.description>>
                     \o item.op.tags.list
                     \o <<OperationIdOf(item.method, path, item.op)>>, <<" ">>))

SearchEntry(path, item) ==
    [operationId |-> OperationIdOf(item.method, path, item.op),
     method      |-> ToUpperCase(item.method),
     path        |-> path,
     summary     |-> item.op.summary,
     description |-> item.op.description,
     tags        |-> item.op.tags.list]

RECURSIVE SearchItems(_, _, _, _)
SearchItems(path, items, input, acc) ==
    IF items = <<>> THEN acc
    ELSE IF Skipped(Head(items)) THEN SearchItems(path, Tail(items), input, acc)
    ELSE LET next == IF Includes(SearchText(path, Head(items)), ToLowerCase(input.query))
                     THEN Append(acc, SearchEntry(path, Head(items)))
                     ELSE acc
         IN  IF Len(next) >= input.limit THEN next
             ELSE SearchItems(path, Tail(items), input, next)

RECURSIVE SearchPaths(_, _, _)
SearchPaths(paths, input, acc) ==
    IF paths = <<>> THEN acc
    ELSE LET next == SearchItems(Head(paths).path, Head(paths).items, input, acc)
         IN  IF Len(next) >= input.limit THEN next
             ELSE SearchPaths(Tail(paths), input, next)

SearchEndpointsResult(doc, input) ==
    LET results == SearchPaths(doc.paths, input, <<>>)
    IN  [kind |-> "search", query |-> input.query, total |-> Len(results),
         results |-> results]

(***************************************************************************)
(* make_api_call                                                           *)
(***************************************************************************)
\* the names of the "{name}" segments of the path template
PathParams(targetPath) ==
    LET segments == Split(targetPath, "/")
    IN  {SubSeq(segments[i], 2, Len(segments[i]) - 1) :
            i \in {j \in DOMAIN segments :
                      StartsWith(segments[j], <<"{">>) /\ EndsWith(segments[j], <<"}">>)}}

Braced(key) == <<"{">> \o key \o <<"}">>

\* Object.entries(params).forEach: replace "{key}" for each path parameter
RECURSIVE SubstitutePathParams(_, _, _)
SubstitutePathParams(url, params, pathParams) ==
    IF params = <<>> THEN url
    ELSE LET p == Head(params)
             next == IF p.k \in pathParams
                     THEN ReplaceFirst(url, Braced(p.k), EncodeURIComponent(StringOf(p.v)))
                     ELSE url
         IN  SubstitutePathParams(next, Tail(params), pathParams)

\* the parameters that are not path parameters
QueryParams(params, pathParams) == SelectSeq(params, LAMBDA p : p.k \notin pathParams)

\* input.auth?.type !== "none" ? input.auth : undefined
AuthArgument(auth) == IF auth.present /\ auth.type = "none" THEN NoAuth ELSE auth

\* the axios configuration make_api_call builds for the resolved operation
ApiRequest(doc, t, input, swaggerClass) ==
    LET pathParams == PathParams(t.path)
        url == SubstitutePathParams(apiBaseUrl \o t.path, input.parameters, pathParams)
        queryParams == QueryParams(input.parameters, pathParams)
        headers == IF swaggerClass THEN getAuthHeadersSwagger(input.auth, t.op, doc)
                   ELSE getAuthHeaders(AuthArgument(input.auth))
        authQueryParams == IF swaggerClass THEN getAuthQueryParams(input.auth)
                           ELSE getAuthQueryParams(AuthArgument(input.auth))
    IN  [method |-> t.method, url |-> url, headers |-> headers, data |-> input.body,
         params |-> Spread(queryParams, authQueryParams)]

\* what the handler returns for each outcome of the transport
\* a handler that answers a transport failure without a response with a
\* made-up response; C13 must tell it from the code's
ApiCallResultSynthetic(reply) ==
    [kind |-> IF reply.kind = "response" THEN "response" ELSE "errorResponse",
     data |-> reply.data, status |-> reply.status]

ApiCallResult(reply) ==
    CASE reply.kind = "response" ->
            [kind |-> "response", data |-> reply.data, status |-> reply.status]
      [] reply.kind = "failure" ->
            [kind |-> "errorResponse", data |-> reply.data, status |-> reply.status]
      [] OTHER -> [kind |-> "error", data |-> <<>>, status |-> 0]

(***************************************************************************)
(* Postman collections                                                     *)
(*                                                                         *)
(* An item of the tree is [kind, name, method, url, description, query,    *)
(* variables, headers, body, items]: kind "item" (a request) or "group"    *)
(* (a folder, with its children in items).  name is an optional string.    *)
(***************************************************************************)
UndefinedText == <<"u","n","d","e","f","i","n","e","d">>
UnnamedRequest == <<"U","n","n","a","m","e","d"," ","R","e","q","u","e","s","t">>

\* `${x}` of an optional string
Interpolate(name) == IF name.present THEN name.s ELSE UndefinedText

\* .replace(/[^a-zA-Z0-9_]/g, "_")
Sanitize(s) == [i \in DOMAIN s |-> IF IsWordChar(s[i]) THEN s[i] ELSE "_"]

\* the id parseAllRequests gives an item
RequestId(folderPath, item) == ToLowerCase(Sanitize(folderPath \o Interpolate(item.name)))

RequestEntry(folderPath, item) ==
    [id          |-> RequestId(folderPath, item),
     name        |-> IF item.name.present /\ Truthy(item.name.s) THEN item.name.s
                     ELSE UnnamedRequest,
     method      |-> IF Truthy(item.method) THEN item.method ELSE <<"G","E","T">>,
     url         |-> item.url,
     description |-> item.description,
     folder      |-> folderPath,
     request     |-> item]

\* parseItem of parseAllRequests: depth-first, folders extend the folder path
RECURSIVE ParseItems(_, _)
ParseItems(items, folderPath) ==
    IF items = <<>> THEN <<>>
    ELSE LET item == Head(items)
             here == IF item.kind = "item" THEN <<RequestEntry(folderPath, item)>>
                     ELSE ParseItems(item.items,
                                     IF Truthy(folderPath)
                                     THEN folderPath \o <<"/">> \o Interpolate(item.name)
                                     ELSE Interpolate(item.name))
         IN  here \o ParseItems(Tail(items), folderPath)

parseAllRequests(coll) == ParseItems(coll, <<>>)

(***************************************************************************)
(* registerTools of PostmanMcpServer: one tool per request                 *)
(***************************************************************************)
\* .replace(/_+/g, "_")
RECURSIVE CollapseUnderscores(_)
CollapseUnderscores(s) ==
    IF Len(s) < 2 THEN s
    ELSE IF s[1] = "_" /\ s[2] = "_" THEN CollapseUnderscores(Tail(s))
    ELSE <<s[1]>> \o CollapseUnderscores(Tail(s))

\* .replace(/^_+|_+$/g, "")
RECURSIVE TrimUnderscores(_)
TrimUnderscores(s) ==
    IF s = <<>> THEN s
    ELSE IF s[1] = "_" THEN TrimUnderscores(Tail(s))
    ELSE IF s[Len(s)] = "_" THEN TrimUnderscores(SubSeq(s, 1, Len(s) - 1))
    ELSE s

\* the tool name before it is made unique
BaseToolName(baseName) ==
    LET trimmed  == TrimUnderscores(CollapseUnderscores(ToLowerCase(Sanitize(baseName))))
        prefixed == IF trimmed # <<>> /\ trimmed[1] \in Range(DigitChars)
                    THEN <<"a","p","i","_">> \o trimmed ELSE trimmed
    IN  IF prefixed = <<>>
        THEN <<"u","n","n","a","m","e","d","_","r","e","q","u","e","s","t">>
        ELSE prefixed

\* `${toolName}_${counter}` for the counters the model needs (below 10)
Suffixed(toolName, counter) == toolName \o <<"_", DigitChars[counter + 1]>>

\* generateUniqueToolName: used is the set usedToolNames
generateUniqueToolName(baseName, used) ==
    LET toolName == BaseToolName(baseName)
    IN  IF toolName \notin used THEN toolName
        ELSE Suffixed(toolName,
                      MinOf({c \in 1..9 : Suffixed(toolName, c) \notin used}))

\* registerItem: the tool names registered for a list of items, given those
\* already registered
RECURSIVE RegisterItems(_, _, _)
RegisterItems(items, prefix, names) ==
    IF items = <<>> THEN names
    ELSE LET item == Head(items)
             next == IF item.kind = "item"
                     THEN Append(names,
                                 generateUniqueToolName(prefix \o Interpolate(item.name),
                                                        Range(names)))
                     ELSE RegisterItems(item.items,
                                        ToLowerCase(Sanitize(prefix \o Interpolate(item.name)
                                                             \o <<"_">>)),
                                        names)
         IN  RegisterItems(Tail(items), prefix, next)

registerTools(coll) == RegisterItems(coll, <<>>, <<>>)

(***************************************************************************)
(* get_request_details of SimplePostmanMcpServer                           *)
(***************************************************************************)
RequestNotFound ==
    [kind |-> "text",
     text |-> "Request not found. Use list_requests to see available requests."]

\* req.id === input.requestId || req.name.toLowerCase() === input.name?.toLowerCase()
MatchesRequest(input, req) ==
    \/ input.requestId.present /\ req.id = input.requestId.s
    \/ input.name.present /\ ToLowerCase(req.name) = ToLowerCase(input.name.s)

NoRequest == [found |-> FALSE, index |-> 0]

\* the lookup loop of get_request_details and make_request: the first match
FindRequest(reqs, input) ==
    LET hits == {i \in DOMAIN reqs : MatchesRequest(input, reqs[i])}
    IN  IF hits = {} THEN NoRequest ELSE [found |-> TRUE, index |-> MinOf(hits)]

Enabled(list) == SelectSeq(list, LAMBDA p : Truthy(p.key) /\ ~p.disabled)

HasBodyInfo(request) ==
    request.body.present /\ request.method \in {<<"P","O","S","T">>, <<"P","U","T">>,
                                                 <<"P","A","T","C","H">>}

RequestDetailsResult(reqs, input) ==
    LET f == FindRequest(reqs, input)
        r == reqs[f.index]
    IN  IF ~f.found THEN RequestNotFound
        ELSE [kind        |-> "details",
              id          |-> r.id,
              name        |-> r.name,
              method      |-> r.method,
              url         |-> r.url,
              folder      |-> r.folder,
              description |-> r.description,
              parameters  |-> [query   |-> Enabled(r.request.query),
                               path    |-> SelectSeq(r.request.variables,
                                                     LAMBDA p : Truthy(p.key)),
                               headers |-> Enabled(r.request.headers)],
              body        |-> IF HasBodyInfo(r.request) THEN r.request.body
                              ELSE [present |-> FALSE, mode |-> "none", raw |-> <<>>]]

(***************************************************************************)
(* make_request / executeRequest of SimplePostmanMcpServer                 *)
(***************************************************************************)
\* length of the longest prefix of s made of \w characters
RECURSIVE WordPrefixLen(_)
WordPrefixLen(s) ==
    IF s = <<>> \/ ~IsWordChar(Head(s)) THEN 0 ELSE 1 + WordPrefixLen(Tail(s))

\* this.environment[variableName] || match
EnvOr(env, variableName, match) ==
    IF HasKey(env, variableName) /\ Truthy(Get(env, variableName))
    THEN Get(env, variableName) ELSE match

\* text.replace(/\{\{(\w+)\}\}/g, ...): every token, left to right, the
\* replacement text is not scanned again
RECURSIVE resolveVariables(_, _)
resolveVariables(text, env) ==
    IF text = <<>> THEN text
    ELSE LET rest == SubSeq(text, 3, Len(text))
             n    == WordPrefixLen(rest)
         IN  IF /\ StartsWith(text, <<"{","{">>)
                /\ n >= 1
                /\ StartsWith(SubSeq(rest, n + 1, Len(rest)), <<"}","}">>)
             THEN EnvOr(env, SubSeq(rest, 1, n), SubSeq(text, 1, n + 4))
                  \o resolveVariables(SubSeq(rest, n + 3, Len(rest)), env)
             ELSE <<Head(text)>> \o resolveVariables(Tail(text), env)

Colon(key)        == <<":">> \o key
DoubleBraced(key) == <<"{","{">> \o key \o <<"}","}">>

\* the three replacements executeRequest tries for one parameter
SubstituteOne(url, key, value) ==
    LET enc == EncodeURIComponent(StringOf(value))
    IN  ReplaceFirst(ReplaceFirst(ReplaceFirst(url, Colon(key), enc),
                                  DoubleBraced(key), enc),
                     Braced(key), enc)

RECURSIVE SubstituteParameters(_, _)
SubstituteParameters(url, parameters) ==
    IF parameters = <<>> THEN url
    ELSE SubstituteParameters(SubstituteOne(url, Head(parameters).k, Head(parameters).v),
                              Tail(parameters))

\* the query parameters: the auth ones, then every parameter whose token is
\* not found in the url as it stands after the substitutions
RECURSIVE AddQueryParams(_, _, _)
AddQueryParams(queryParams, parameters, url) ==
    IF parameters = <<>> THEN queryParams
    ELSE LET p == Head(parameters)
             next == IF ~Includes(url, Colon(p.k)) /\ ~Includes(url, DoubleBraced(p.k))
                     THEN Put(queryParams, p.k, p.v) ELSE queryParams
         IN  AddQueryParams(next, Tail(parameters), url)

HeaderWord == <<"h","e","a","d","e","r">>
ContentType == <<"C","o","n","t","e","n","t","-","T","y","p","e">>
ApplicationJson == <<"a","p","p","l","i","c","a","t","i","o","n","/","j","s","o","n">>

\* the headers: the auth ones, then every parameter whose name contains "header"
RECURSIVE AddHeaderParams(_, _)
AddHeaderParams(headers, parameters) ==
    IF parameters = <<>> THEN headers
    ELSE LET p == Head(parameters)
             next == IF Includes(ToLowerCase(p.k), HeaderWord)
                     THEN Put(headers, p.k, p.v) ELSE headers
         IN  AddHeaderParams(next, Tail(parameters))

\* if (body && !headers["Content-Type"]) headers["Content-Type"] = "application/json"
WithContentType(headers, body) ==
    IF body.truthy /\ ~(HasKey(headers, ContentType) /\ Truthy(Get(headers, ContentType).s))
    THEN Put(headers, ContentType, StringValue(ApplicationJson))
    ELSE headers

NoData == [present |-> FALSE, text |-> <<>>]

\* config.data: a string body as it is, any other truthy body as JSON text
RequestData(body) ==
    IF ~body.truthy THEN NoData
    ELSE IF body.t = "string" THEN [present |-> TRUE, text |-> body.s]
    ELSE [present |-> TRUE, text |-> body.json]

\* the other order, caller parameters before the environment; C2 must tell it
\* from the code's
PostmanRequestParametersFirst(request, parameters, body, auth, env) ==
    LET url == resolveVariables(SubstituteParameters(request.url, parameters), env)
    IN  [method  |-> IF Truthy(request.method) THEN request.method ELSE <<"G","E","T">>,
         url     |-> url,
         headers |-> WithContentType(AddHeaderParams(getAuthHeaders(auth), parameters), body),
         params  |-> AddQueryParams(getAuthQueryParams(auth), parameters, url),
         data    |-> RequestData(body)]

\* the axios configuration executeRequest builds
PostmanRequest(request, parameters, body, auth, env) ==
    LET url == SubstituteParameters(resolveVariables(request.url, env), parameters)
    IN  [method  |-> IF Truthy(request.method) THEN request.method ELSE <<"G","E","T">>,
         url     |-> url,
         headers |-> WithContentType(AddHeaderParams(getAuthHeaders(auth), parameters), body),
         params  |-> AddQueryParams(getAuthQueryParams(auth), parameters, url),
         data    |-> RequestData(body)]

\* what make_request returns for each outcome of the transport
\* a result whose error flag follows the status code instead of the
\* transport's classification; C12 must tell it from the code's
RequestResultByStatus(reply) ==
    IF reply.kind \in {"response", "failure"}
    THEN [kind |-> "response", status |-> reply.status, statusText |-> reply.statusText,
          headers |-> reply.headers, data |-> reply.data, error |-> reply.status >= 400]
    ELSE [kind |-> "error", status |-> 0, statusText |-> <<>>, headers |-> <<>>,
          data |-> <<>>, error |-> FALSE]

RequestResult(reply) ==
    CASE reply.kind = "response" ->
            [kind |-> "response", status |-> reply.status, statusText |-> reply.statusText,
             headers |-> reply.headers, data |-> reply.data, error |-> FALSE]
      [] reply.kind = "failure" ->
            [kind |-> "response", status |-> reply.status, statusText |-> reply.statusText,
             headers |-> reply.headers, data |-> reply.data, error |-> TRUE]
      [] OTHER -> [kind |-> "error", status |-> 0, statusText |-> <<>>, headers |-> <<>>,
                   data |-> <<>>, error |-> FALSE]

(***************************************************************************)
(* The transport                                                           *)
(***************************************************************************)
\* the retrying alternative: a failed attempt is repeated once; C11 must tell
\* it from the code's
AttemptsWithRetry(request, reply) ==
    IF reply.kind = "response" THEN <<request>> ELSE <<request, request>>

\* try { await axios(config) } catch { return ... }: the requests handed to
\* the transport for one dispatch, whatever the outcome
Attempts(request, reply) == <<request>>

(***************************************************************************)
(* list_requests and search_requests of SimplePostmanMcpServer             *)
(***************************************************************************)
\* Array.prototype.slice(0, n)
SliceTo(seq, n) ==
    LET last == IF n >= 0 THEN (IF n < Len(seq) THEN n ELSE Len(seq))
                ELSE (IF Len(seq) + n > 0 THEN Len(seq) + n ELSE 0)
    IN  SubSeq(seq, 1, last)

\* description.substring(0, 100) + (description.length > 100 ? "..." : "")
Preview(description) ==
    IF Len(description) > 100 THEN SubSeq(description, 1, 100) \o <<".",".",".">>
    ELSE description

RequestSummary(req) ==
    [id |-> req.id, name |-> req.name, method |-> req.method, url |-> req.url,
     folder |-> req.folder, description |-> Preview(req.description)]

\* the two filters of list_requests, applied one after the other
FilterRequests(reqs, input) ==
    LET byMethod == IF input.method.present /\ Truthy(input.method.s)
                    THEN SelectSeq(reqs, LAMBDA req :
                            ToLowerCase(req.method) = ToLowerCase(input.method.s))
                    ELSE reqs
    IN  IF input.folder.present /\ Truthy(input.folder.s)
        THEN SelectSeq(byMethod, LAMBDA req :
                Includes(ToLowerCase(req.folder), ToLowerCase(input.folder.s)))
        ELSE byMethod

ListRequestsResult(reqs, input) ==
    LET limitedRequests == SliceTo(FilterRequests(reqs, input), input.limit)
    IN  [kind |-> "list", total |-> Len(limitedRequests),
         requests |-> [i \in DOMAIN limitedRequests |-> RequestSummary(limitedRequests[i])]]

\* twice the score of calculateRelevance (1 per word found, 0.5 more for a
\* whole-word match), to stay in the integers
RECURSIVE WordScores(_, _)
WordScores(queryWords, text) ==
    IF queryWords = <<>> THEN 0
    ELSE LET word == Head(queryWords)
             here == IF ~Includes(text, word) THEN 0
                     ELSE IF \/ Includes(text, <<" ">> \o word \o <<" ">>)
                             \/ StartsWith(text, word)
                             \/ EndsWith(text, word)
                     THEN 3 ELSE 2
         IN  here + WordScores(Tail(queryWords), text)

calculateRelevance(query, text) == WordScores(Split(query, " "), text)

RequestSearchText(req) ==
    ToLowerCase(Join(<<req.name, req.description, req.url, req.folder, req.method>>,
                     <<" ">>))

\* the scan of search_requests: it stops once limit results are collected
RECURSIVE ScanRequests(_, _, _)
ScanRequests(reqs, input, acc) ==
    IF reqs = <<>> THEN acc
    ELSE LET req == Head(reqs)
             query == ToLowerCase(input.query)
             searchText == RequestSearchText(req)
         IN  IF ~Includes(searchText, query) THEN ScanRequests(Tail(reqs), input, acc)
             ELSE LET next == Append(acc, [entry |-> RequestSummary(req),
                                           relevance |-> calculateRelevance(query,
                                                                            searchText)])
                  IN  IF Len(next) >= input.limit THEN next
                      ELSE ScanRequests(Tail(reqs), input, next)

\* results.sort((a, b) => b.relevance - a.relevance): stable, highest first
RECURSIVE SortByRelevance(_)
SortByRelevance(results) ==
    IF results = <<>> THEN <<>>
    ELSE LET sorted == SortByRelevance(SubSeq(results, 1, Len(results) - 1))
             last   == results[Len(results)]
             ahead  == Cardinality({i \in DOMAIN sorted :
                                       sorted[i].relevance >= last.relevance})
         IN  SubSeq(sorted, 1, ahead) \o <<last>> \o SubSeq(sorted, ahead + 1, Len(sorted))

SearchRequestsResult(reqs, input) ==
    LET results == SortByRelevance(ScanRequests(reqs, input, <<>>))
    IN  [kind |-> "search", query |-> input.query, total |-> Len(results),
         results |-> [i \in DOMAIN results |-> results[i].entry]]

\* search_endpoints of SwaggerMcpServer: the scan of SimpleSwaggerMcpServer,
\* each result with the relevance of its search text, then the sort
SearchEndpointsSortedResult(doc, input) ==
    LET found == SearchPaths(doc.paths, input, <<>>)
        text(e) == ToLowerCase(Join(<<e.path, e.summary, e.description>> \o e.tags
                                    \o <<e.operationId>>, <<" ">>))
        results == SortByRelevance(
                       [i \in DOMAIN found |->
                           [entry |-> found[i],
                            relevance |-> calculateRelevance(ToLowerCase(input.query),
                                                             text(found[i]))]])
    IN  [kind |-> "search", query |-> input.query, total |-> Len(results),
         results |-> [i \in DOMAIN results |-> results[i].entry]]

(***************************************************************************)
(* Inputs: documents, collections, configurations and tool arguments       *)
(***************************************************************************)
MaxLimit == 3
DefaultListLimit == 50
DefaultSearchLimit == 20

BaseUrl == <<"h","t","t","p","s",":","/","/","a","p","i",".","t","e","s","t">>

S_get    == <<"g","e","t">>
S_GET    == <<"G","E","T">>
S_post   == <<"p","o","s","t">>
S_put    == <<"p","u","t">>
S_delete == <<"d","e","l","e","t","e">>
S_parameters == <<"p","a","r","a","m","e","t","e","r","s">>
S_id      == <<"i","d">>
S_x       == <<"x">>
S_X       == <<"X">>
S_verbose == <<"v","e","r","b","o","s","e">>
S_users   == <<"u","s","e","r","s">>
S_user    == <<"u","s","e","r">>
S_pets    == <<"p","e","t","s">>
S_getUser == <<"g","e","t","U","s","e","r">>
S_addPet  == <<"a","d","d","P","e","t">>
S_nope    == <<"n","o","p","e">>
S_42      == <<"4","2">>
S_7       == <<"7">>
S_k       == <<"k">>
S_q       == <<"q">>
S_tok     == <<"t","o","k">>

P_users_id == <<"/","u","s","e","r","s","/","{","i","d","}">>
P_pets     == <<"/","p","e","t","s">>
P_a_x_x    == <<"/","a","/","{","x","}","/","{","x","}">>
P_a_xjson  == <<"/","a","/","{","x","}",".","j","s","o","n">>

Operation(id, summary, tags, security) ==
    [PlainValue EXCEPT !.operationId = id, !.summary = summary, !.tags = tags,
                       !.security = security]

ApiKeyScheme == [name |-> <<"a","p","i","_","k","e","y">>, type |-> "apiKey", scheme |-> ""]
BearerScheme == [name |-> <<"b","e","a","r","e","r">>, type |-> "http", scheme |-> "bearer"]

\* /users/{id} with a shared parameters list, get (getUser) and delete
\* (no operationId, security: []); /pets with get (no operationId) and post
DocUsers ==
    [paths |-> <<
        [path |-> P_users_id, items |-> <<
            [method |-> S_parameters, op |-> PlainValue],
            [method |-> S_get,
             op |-> Operation(S_getUser, <<"g","e","t"," ","u","s","e","r">>,
                              Tags(<<S_users>>), NoSecurity)],
            [method |-> S_delete,
             op |-> Operation(<<>>, <<>>, Tags(<<S_users>>), Security(<<>>))]>>],
        [path |-> P_pets, items |-> <<
            [method |-> S_get,
             op |-> Operation(<<>>, <<"l","i","s","t"," ","p","e","t","s">>, Absent,
                              Security(<<ApiKeyScheme.name>>))],
            [method |-> S_post,
             op |-> [Operation(S_addPet, <<>>, Tags(<<S_pets>>), NoSecurity)
                        EXCEPT !.requestBody = <<ApplicationJson>>]]>>]>>,
     security |-> NoSecurity,
     securitySchemes |-> <<ApiKeyScheme, BearerScheme>>]

\* a path item with a $ref and a null operation, a path template naming one
\* parameter twice, a segment that only starts like a parameter; a
\* document-level security requirement
DocRefs ==
    [paths |-> <<
        [path |-> P_a_x_x, items |-> <<
            [method |-> RefKey, op |-> PlainValue],
            [method |-> S_get, op |-> Operation(<<>>, <<>>, Absent, NoSecurity)],
            [method |-> S_put, op |-> NullValue]>>],
        [path |-> P_a_xjson, items |-> <<
            [method |-> S_GET, op |-> Operation(<<>>, <<>>, Absent, Security(<<>>))]>>]>>,
     security |-> Security(<<BearerScheme.name>>),
     securitySchemes |-> <<BearerScheme, ApiKeyScheme>>]

T_get_user   == <<"g","e","t"," ","u","s","e","r">>
T_list_users == <<"l","i","s","t"," ","u","s","e","r","s"," ","a","n","d"," ",
                  "r","o","l","e","s">>

\* GET /pets and POST /pets, nothing else; the summary of the second is the
\* better match for "user"
DocPets ==
    [paths |-> <<
        [path |-> P_pets, items |-> <<
            [method |-> S_get, op |-> Operation(<<>>, T_list_users, Absent, NoSecurity)],
            [method |-> S_post,
             op |-> [Operation(<<>>, T_get_user, Absent, NoSecurity)
                        EXCEPT !.requestBody = <<ApplicationJson>>]]>>]>>,
     security |-> NoSecurity,
     securitySchemes |-> <<ApiKeyScheme, BearerScheme>>]

Documents == {DocUsers, DocRefs, DocPets}

EmptyDocument == [paths |-> <<>>, security |-> NoSecurity, securitySchemes |-> <<>>]

DefaultAuths == {NoAuth, BearerAuth(S_tok), ApiKeyAuth(S_k, S_X, "header"),
                 ApiKeyAuth(S_k, S_X, "query")}

CallAuths == {NoAuth, AuthOfType("none"), BearerAuth(S_q), ApiKeyAuth(S_q, S_X, "header"),
              ApiKeyAuth(S_q, S_X, "query")}

Param(key, value) == [k |-> key, v |-> value]

ApiParameters ==
    {<<>>,
     <<Param(S_id, StringValue(S_42)), Param(S_verbose, TrueValue)>>,
     <<Param(S_verbose, TrueValue), Param(S_x, StringValue(<<"a","/","b">>))>>,
     <<Param(S_X, StringValue(S_7)), Param(S_id, StringValue(S_7))>>}

NoBody == [present |-> FALSE, truthy |-> FALSE, t |-> "undefined", s |-> <<>>, json |-> <<>>]
StringBody(x) == [present |-> TRUE, truthy |-> x # <<>>, t |-> "string", s |-> x,
                  json |-> <<"\"">> \o x \o <<"\"">>]

\* a body that is not a string: typeof, truthiness and JSON.stringify of it
JsonBody(type, truthy, json) ==
    [present |-> TRUE, truthy |-> truthy, t |-> type, s |-> <<>>, json |-> json]

ObjectBody == JsonBody("object", TRUE, <<"{","\"","a","\"",":","1","}">>)
ZeroBody   == JsonBody("number", FALSE, <<"0">>)

\* the bodies tried with every per-call auth
CommonBodies == {NoBody, StringBody(<<"h","i">>)}

Bodies == CommonBodies \cup {StringBody(<<>>), ObjectBody, ZeroBody}

\* the headers of an upstream answer
ReplyHeaders == <<[k |-> <<"e","t","a","g">>, v |-> <<"1">>]>>

OkReply == [kind |-> "response", status |-> 200, statusText |-> <<"O","K">>,
            headers |-> ReplyHeaders, data |-> <<"[","]">>]

Replies == {OkReply,
            [kind |-> "failure", status |-> 404,
             statusText |-> <<"N","o","t"," ","F","o","u","n","d">>,
             headers |-> ReplyHeaders, data |-> <<"n","o">>],
            [kind |-> "failure", status |-> 304, statusText |-> <<>>,
             headers |-> <<>>, data |-> <<>>],
            [kind |-> "noResponse", status |-> 0, statusText |-> <<>>,
             headers |-> <<>>, data |-> <<>>]}

Dash(method, path) == method \o <<"-">> \o path

OperationIds == {Undefined, Str(S_getUser), Str(S_addPet), Str(S_nope),
                 Str(Dash(S_delete, P_users_id)), Str(Dash(S_get, P_pets)),
                 Str(Dash(S_get, P_a_x_x)), Str(Dash(S_parameters, P_users_id))}

PathAndMethod == {<<Undefined, Undefined>>, <<Str(P_users_id), Str(S_GET)>>,
                  <<Str(P_pets), Str(S_post)>>, <<Str(P_pets), Undefined>>}

Limits(default) == (0..MaxLimit) \cup {default}

\* the auth types the make_api_call schema of SwaggerMcpServer accepts:
\* "none" and one per declared security scheme (createAuthSchema)
AuthTypes(doc) ==
    {"none"} \cup {CASE sc.type = "basic"  -> "basic"
                     [] sc.type = "apiKey" -> "apiKey"
                     [] sc.type = "oauth2" -> "oauth2"
                     [] sc.type \in {"bearer", "http"} /\ sc.scheme = "bearer" -> "bearer"
                     [] OTHER -> "none" : sc \in Range(doc.securitySchemes)}

S_baseUrl  == <<"b","a","s","e","U","r","l">>
S_tenant   == <<"t","e","n","a","n","t">>
S_admin    == <<"a","d","m","i","n">>
S_GetUser  == <<"G","e","t"," ","U","s","e","r">>
S_get_user == <<"g","e","t","-","u","s","e","r">>
S_DELETE   == <<"D","E","L","E","T","E">>
S_POST     == <<"P","O","S","T">>
S_acme     == <<"a","c","m","e">>

\* {{baseUrl}}/users/:id
U_users_id == DoubleBraced(S_baseUrl) \o <<"/","u","s","e","r","s","/",":","i","d">>
\* {{baseUrl}}/{{tenant}}/users/{id}
U_tenant   == DoubleBraced(S_baseUrl) \o <<"/">> \o DoubleBraced(S_tenant)
              \o <<"/","u","s","e","r","s","/","{","i","d","}">>
\* https://api.test/pets
U_pets     == BaseUrl \o P_pets

NoRequestBody == [present |-> FALSE, mode |-> "none", raw |-> <<>>]
RawBody(x)    == [present |-> TRUE, mode |-> "raw", raw |-> x]

RequestItem(name, method, url) ==
    [kind |-> "item", name |-> name, method |-> method, url |-> url,
     description |-> <<>>, query |-> <<>>, variables |-> <<>>, headers |-> <<>>,
     body |-> NoRequestBody, items |-> <<>>]

Folder(name, items) ==
    [kind |-> "group", name |-> name, method |-> <<>>, url |-> <<>>,
     description |-> <<>>, query |-> <<>>, variables |-> <<>>, headers |-> <<>>,
     body |-> NoRequestBody, items |-> items]

\* "Get User" at the top and again in the folder admin, and a POST with a body
CollUsers ==
    <<RequestItem(Str(S_GetUser), S_GET, U_users_id),
      Folder(Str(S_admin), <<
          [RequestItem(Str(S_GetUser), S_DELETE, U_tenant)
              EXCEPT !.variables = <<[key |-> S_id, value |-> <<>>]>>,
                     !.headers = <<[key |-> S_X, value |-> S_k, disabled |-> FALSE],
                                   [key |-> S_x, value |-> S_k, disabled |-> TRUE]>>],
          [RequestItem(Str(<<"a","d","d">>), S_POST, U_pets)
              EXCEPT !.body = RawBody(<<"{","}">>)]>>)>>

\* names that differ only in case and punctuation, an item without a name,
\* a numeric name, and a folder whose path runs into the item name
CollSlugs ==
    <<RequestItem(Str(S_get_user), S_GET, U_pets),
      RequestItem(Str(S_GetUser), <<>>, U_users_id),
      RequestItem(Undefined, S_GET, U_pets),
      Folder(Str(<<"a">>), <<RequestItem(Str(<<"b","1">>), S_GET, U_pets)>>),
      RequestItem(Str(<<"a","b","1">>), S_GET, U_pets),
      RequestItem(Str(<<"1"," ","!">>), S_GET, U_pets)>>

Collections == {CollUsers, CollSlugs}

Var(key, value) == [k |-> key, v |-> value]

Environments == {<<>>,
                 <<Var(S_baseUrl, BaseUrl)>>,
                 <<Var(S_baseUrl, BaseUrl), Var(S_tenant, S_acme)>>,
                 <<Var(S_tenant, <<>>)>>}

RequestIds == {Undefined, Str(<<"g","e","t","_","u","s","e","r">>),
               Str(<<"a","d","m","i","n","g","e","t","_","u","s","e","r">>),
               Str(<<"a","d","m","i","n","a","d","d">>), Str(S_nope)}

RequestNames == {Undefined, Str(S_GetUser), Str(<<"g","e","t"," ","u","s","e","r">>),
                 Str(S_nope)}

RequestParameters ==
    {<<>>,
     <<Param(S_id, StringValue(S_7))>>,
     <<Param(S_id, StringValue(S_7)), Param(S_baseUrl, StringValue(S_x))>>,
     <<Param(<<"i">>, StringValue(S_7))>>,
     <<Param(S_tenant, StringValue(<<"t","/","1">>)),
       Param(<<"h","e","a","d","e","r","_","x">>, StringValue(S_k))>>}

(***************************************************************************)
(* The servers as a state machine                                          *)
(***************************************************************************)
OpenApiVariants == {"SimpleSwagger", "Swagger"}
PostmanVariants == {"SimplePostman", "Postman"}
Variants == OpenApiVariants \cup PostmanVariants

NoCall == [op |-> "none", input |-> <<>>, reply |-> <<>>, result |-> [kind |-> "none"]]

\* no tool call is being handled
Idle == call.op = "none"

\* the guard C15 must tell from the code's: tools answer as soon as the
\* server object exists
ServingOnceConstructed == stage # "exited"

\* server.connect(transport) has returned: tool calls reach the handlers
Serving == stage = "connected"

\* the state after the constructor, main() running
Init ==
    /\ variant \in Variants
    /\ apiBaseUrl = BaseUrl
    /\ defaultAuth \in DefaultAuths
    /\ loaded = FALSE
    /\ swaggerSpec = EmptyDocument
    /\ collection = <<>>
    /\ requests = <<>>
    /\ toolNames = <<>>
    /\ environment = <<>>
    /\ call = NoCall
    /\ http = <<>>
    /\ stage = "starting"
    /\ inflight = <<>>

\* loadSwaggerSpec: parse the document, register the tools
LoadSwaggerSpec ==
    /\ variant \in OpenApiVariants
    /\ stage = "starting"
    /\ \E doc \in Documents : swaggerSpec' = doc
    /\ loaded' = TRUE
    /\ call' = NoCall
    /\ http' = <<>>
    /\ UNCHANGED <<variant, apiBaseUrl, defaultAuth, collection, requests, toolNames,
                   environment, stage, inflight>>

\* loadCollection: SimplePostmanMcpServer parses the request table,
\* PostmanMcpServer registers one tool per request
LoadCollection ==
    /\ variant \in PostmanVariants
    /\ stage = "starting"
    /\ \E coll \in Collections :
          /\ collection' = coll
          /\ requests' = IF variant = "SimplePostman" THEN parseAllRequests(coll)
                          ELSE requests
          /\ toolNames' = IF variant = "Postman" THEN registerTools(coll) ELSE toolNames
    /\ loaded' = TRUE
    /\ call' = NoCall
    /\ http' = <<>>
    /\ UNCHANGED <<variant, apiBaseUrl, defaultAuth, swaggerSpec, environment, stage,
                   inflight>>

\* loadEnvironment: this.environment[variable.key] = variable.value
LoadEnvironment ==
    /\ variant \in PostmanVariants
    /\ stage = "starting"
    /\ loaded
    /\ \E env \in Environments : environment' = Spread(environment, env)
    /\ call' = NoCall
    /\ http' = <<>>
    /\ UNCHANGED <<variant, apiBaseUrl, defaultAuth, loaded, swaggerSpec, collection,
                   requests, toolNames, stage, inflight>>

\* a step of main() before the connect throws (the configuration, a source
\* that cannot be read or parsed, the registration): the catch block calls
\* process.exit(1).  What the failed load had assigned by then stays assigned.
LoadFails ==
    /\ stage = "starting"
    /\ stage' = "exited"
    /\ \/ UNCHANGED <<swaggerSpec, collection, requests>>
       \/ /\ variant \in OpenApiVariants
          /\ \E doc \in Documents : swaggerSpec' = doc
          /\ UNCHANGED <<collection, requests>>
       \/ /\ variant \in PostmanVariants
          /\ \E coll \in Collections :
                /\ collection' = coll
                /\ requests' \in {requests,
                                  IF variant = "SimplePostman" THEN parseAllRequests(coll)
                                  ELSE requests}
          /\ UNCHANGED swaggerSpec
    /\ UNCHANGED <<variant, apiBaseUrl, defaultAuth, loaded, toolNames, environment,
                   call, http, inflight>>

\* main(): every load has returned; server.connect(transport)
Connect ==
    /\ stage = "starting"
    /\ loaded
    /\ stage' = "connected"
    /\ UNCHANGED <<variant, apiBaseUrl, defaultAuth, loaded, swaggerSpec, collection,
                   requests, toolNames, environment, call, http, inflight>>

\* a handler that uses its table up as it answers; C18 must tell it from
\* the code's
ServedConsuming(result, sent) ==
    /\ call' = result
    /\ http' = sent
    /\ requests' = SubSeq(requests, 1, Len(requests) - 1)
    /\ swaggerSpec' = [swaggerSpec EXCEPT
                          !.paths = SubSeq(swaggerSpec.paths, 1, Len(swaggerSpec.paths) - 1)]
    /\ UNCHANGED <<variant, apiBaseUrl, defaultAuth, loaded, collection, toolNames,
                   environment, stage, inflight>>

\* a handler returns: nothing but the record of the call changes
Served(result, sent) ==
    /\ call' = result
    /\ http' = sent
    /\ UNCHANGED <<variant, apiBaseUrl, defaultAuth, loaded, swaggerSpec, collection,
                   requests, toolNames, environment, stage, inflight>>

ListEndpoints ==
    /\ variant \in OpenApiVariants /\ Serving /\ Idle
    /\ \E method \in {Undefined, Str(S_get), Str(S_GET)},
          tag \in {Undefined, Str(S_users), Str(S_user)},
          limit \in Limits(DefaultListLimit) :
          LET input == [method |-> method, tag |-> tag, limit |-> limit]
          IN  Served([op |-> "list_endpoints", input |-> input, reply |-> <<>>,
                      result |-> ListEndpointsResult(swaggerSpec, input)], <<>>)

GetEndpointDetails ==
    /\ variant \in OpenApiVariants /\ Serving /\ Idle
    /\ \E operationId \in OperationIds \ {Undefined}, pm \in PathAndMethod :
          LET input == [operationId |-> operationId, path |-> pm[1], method |-> pm[2]]
          IN  Served([op |-> "get_endpoint_details", input |-> input, reply |-> <<>>,
                      result |-> EndpointDetailsResult(swaggerSpec, input,
                                                       variant = "Swagger")], <<>>)

SearchEndpoints ==
    /\ variant \in OpenApiVariants /\ Serving /\ Idle
    /\ \E query \in {S_pets, <<"U","S","E","R">>, Dash(S_get, P_pets), S_nope},
          limit \in Limits(DefaultSearchLimit) :
          LET input == [query |-> query, limit |-> limit]
          IN  Served([op |-> "search_endpoints", input |-> input, reply |-> <<>>,
                      result |-> IF variant = "Swagger"
                                 THEN SearchEndpointsSortedResult(swaggerSpec, input)
                                 ELSE SearchEndpointsResult(swaggerSpec, input)], <<>>)

\* the transport's failures are tried with a call that has no body and no
\* per-call auth: the handler builds the request before the reply exists;
\* the bodies that are not a plain string are tried without a per-call auth
MakeApiCall ==
    /\ variant \in OpenApiVariants /\ Serving /\ Idle
    /\ \E operationId \in OperationIds, pm \in PathAndMethod,
          parameters \in ApiParameters, body \in Bodies, auth \in CallAuths,
          reply \in Replies :
          LET input == [operationId |-> operationId, path |-> pm[1], method |-> pm[2],
                        parameters |-> parameters, body |-> body, auth |-> auth]
              t == FindOperation(swaggerSpec.paths, input)
          IN  /\ variant = "Swagger" => auth.type \in AuthTypes(swaggerSpec)
              /\ reply # OkReply => body = NoBody /\ auth = NoAuth
              /\ body \notin CommonBodies => auth = NoAuth
              /\ IF ~t.found
                 THEN Served([op |-> "make_api_call", input |-> input, reply |-> <<>>,
                              result |-> EndpointNotFound], <<>>)
                 ELSE Served([op |-> "make_api_call", input |-> input, reply |-> reply,
                              result |-> ApiCallResult(reply)],
                             Attempts(ApiRequest(swaggerSpec, t, input,
                                                 variant = "Swagger"), reply))

ListRequests ==
    /\ variant = "SimplePostman" /\ Serving /\ Idle
    /\ \E method \in {Undefined, Str(S_get), Str(S_DELETE)},
          folder \in {Undefined, Str(<<"A","d","m">>), Str(<<"m","i","n","s">>)},
          limit \in Limits(DefaultListLimit) :
          LET input == [method |-> method, folder |-> folder, limit |-> limit]
          IN  Served([op |-> "list_requests", input |-> input, reply |-> <<>>,
                      result |-> ListRequestsResult(requests, input)], <<>>)

GetRequestDetails ==
    /\ variant = "SimplePostman" /\ Serving /\ Idle
    /\ \E requestId \in RequestIds \ {Undefined}, name \in RequestNames :
          LET input == [requestId |-> requestId, name |-> name]
          IN  Served([op |-> "get_request_details", input |-> input, reply |-> <<>>,
                      result |-> RequestDetailsResult(requests, input)], <<>>)

SearchRequests ==
    /\ variant = "SimplePostman" /\ Serving /\ Idle
    /\ \E query \in {S_user, <<"G","e","t"," ","u","s","e","r","s">>, S_pets, S_nope,
                     <<"g","e","t","_","u","s","e","r">>},
          limit \in Limits(DefaultSearchLimit) :
          LET input == [query |-> query, limit |-> limit]
          IN  Served([op |-> "search_requests", input |-> input, reply |-> <<>>,
                      result |-> SearchRequestsResult(requests, input)], <<>>)

MakeRequest ==
    /\ variant = "SimplePostman" /\ Serving /\ Idle
    /\ \E requestId \in RequestIds, name \in RequestNames,
          parameters \in RequestParameters, body \in Bodies, auth \in CallAuths,
          reply \in Replies :
          LET input == [requestId |-> requestId, name |-> name,
                        parameters |-> parameters, body |-> body, auth |-> auth]
              f == FindRequest(requests, input)
          IN  /\ reply # OkReply => body = NoBody /\ auth = NoAuth
              /\ body \notin CommonBodies => auth = NoAuth
              /\ IF ~f.found
                 THEN Served([op |-> "make_request", input |-> input, reply |-> <<>>,
                              result |-> RequestNotFound], <<>>)
                 ELSE Served([op |-> "make_request", input |-> input, reply |-> reply,
                              result |-> RequestResult(reply)],
                             Attempts(PostmanRequest(requests[f.index].request,
                                                     parameters, body, auth,
                                                     environment), reply))

\* the handler's result is handed to the transport layer; the server is idle again
Respond ==
    /\ Serving
    /\ ~Idle
    /\ call' = NoCall
    /\ http' = <<>>
    /\ UNCHANGED <<variant, apiBaseUrl, defaultAuth, loaded, swaggerSpec, collection,
                   requests, toolNames, environment, stage, inflight>>

Next ==
    \/ LoadSwaggerSpec
    \/ LoadCollection
    \/ LoadEnvironment
    \/ LoadFails
    \/ Connect
    \/ ListEndpoints
    \/ GetEndpointDetails
    \/ SearchEndpoints
    \/ MakeApiCall
    \/ ListRequests
    \/ GetRequestDetails
    \/ SearchRequests
    \/ MakeRequest
    \/ Respond

Spec == Init /\ [][Next]_vars

(***************************************************************************)
(* Properties                                                              *)
(***************************************************************************)
\* the request the last dispatch handed to the transport
Sent == http[1]

ApiCallSent == call.op = "make_api_call" /\ http # <<>>
RequestSent == call.op = "make_request" /\ http # <<>>

\* the operation a get_endpoint_details / make_api_call input resolved to
Target == FindOperation(swaggerSpec.paths, call.input)

\* the header and query entries of the outbound request that the caller did
\* not supply: what the authentication resolver added
Injected ==
    {e \in Range(Sent.headers) \cup Range(Sent.params) :
        e \notin Range(call.input.parameters) /\ e.k # ContentType}

InjectedHeaders == Injected \cap Range(Sent.headers)
InjectedParams  == Injected \cap Range(Sent.params)

\* the AuthConfig the resolution order selects: the per-call one when
\* supplied, the default otherwise
Selected == IF call.input.auth.present THEN call.input.auth ELSE defaultAuth

\* the secret of an AuthConfig
Secret(a) == IF a.type = "apiKey" THEN a.apiKey ELSE a.token

\* the HTTP verbs of a path item
HttpVerbs == {<<"g","e","t">>, <<"p","u","t">>, <<"p","o","s","t">>,
              <<"d","e","l","e","t","e">>, <<"o","p","t","i","o","n","s">>,
              <<"h","e","a","d">>, <<"p","a","t","c","h">>, <<"t","r","a","c","e">>}

\* the keys of the loaded document that are operations: <<i, j>> is key j of
\* path i, an HTTP verb with an operation object under it
VerbKeys ==
    UNION {{<<i, j>> : j \in {k \in DOMAIN swaggerSpec.paths[i].items :
                                LET it == swaggerSpec.paths[i].items[k]
                                IN  ToLowerCase(it.method) \in HttpVerbs /\ it.op.truthy}} :
           i \in DOMAIN swaggerSpec.paths}

PathOf(key) == swaggerSpec.paths[key[1]].path
ItemOf(key) == swaggerSpec.paths[key[1]].items[key[2]]

\* the id of an operation: its operationId, or "{method}-{path}"
IdOf(key) ==
    IF Truthy(ItemOf(key).op.operationId) THEN ItemOf(key).op.operationId
    ELSE ItemOf(key).method \o <<"-">> \o PathOf(key)

\* the input of a lookup names the operation, by id or by (path, method)
Names(input, key) ==
    \/ input.operationId.present /\ input.operationId.s = IdOf(key)
    \/ /\ input.path.present /\ input.path.s = PathOf(key)
       /\ input.method.present
       /\ ToLowerCase(input.method.s) = ToLowerCase(ItemOf(key).method)

Distinct(seq) == \A i, j \in DOMAIN seq : i # j => seq[i] # seq[j]

\* C1: in make_api_call every caller parameter that names a {name} segment
\* of the path is substituted into the URL and is not in the query, and
\* every other caller parameter is in the query with the value the caller
\* gave it.
C1_PathOrQuery ==
    ApiCallSent =>
        \A p \in Range(call.input.parameters) :
            IF Braced(p.k) \in Range(Split(Target.path, "/"))
            THEN /\ Includes(Sent.url, <<"/">> \o EncodeURIComponent(p.v.s))
                 /\ ~HasKey(Sent.params, p.k)
            ELSE /\ HasKey(Sent.params, p.k)
                 /\ Get(Sent.params, p.k) = p.v

\* C2: in make_request the {{var}} tokens are resolved against the
\* environment before the caller parameters are substituted: a token of a
\* variable the environment defines is replaced by the environment's value
\* whatever the caller passes under that name, and {{baseUrl}}/users/:id
\* with baseUrl = https://api.test and id = 7 goes out as exactly
\* https://api.test/users/7.
C2_EnvironmentThenParameters ==
    RequestSent =>
        LET r == requests[FindRequest(requests, call.input).index]
        IN  /\ \A v \in Keys(environment) :
                  Truthy(Get(environment, v)) /\ Includes(r.url, DoubleBraced(v))
                      => /\ Includes(Sent.url, Get(environment, v))
                         /\ ~Includes(Sent.url, DoubleBraced(v))
            /\ ( /\ r.url = U_users_id
                 /\ HasKey(environment, S_baseUrl)
                 /\ Get(environment, S_baseUrl) = BaseUrl
                 /\ HasKey(call.input.parameters, S_id)
                 /\ Get(call.input.parameters, S_id) = StringValue(S_7) )
                   => Sent.url = BaseUrl \o <<"/","u","s","e","r","s","/","7">>

\* C2 witness: the example is dispatched while the caller also passes a
\* parameter named baseUrl.
C2_Witness ==
    /\ RequestSent
    /\ HasKey(environment, S_baseUrl)
    /\ HasKey(call.input.parameters, S_baseUrl)
    /\ HasKey(call.input.parameters, S_id)
    /\ Sent.url = BaseUrl \o <<"/","u","s","e","r","s","/","7">>

\* C3: every credential a dispatch adds to the outbound request comes from
\* the selected AuthConfig, the per-call argument when one is supplied and
\* the default otherwise; with neither, nothing is added.
C3_PerCallAuthOverridesDefault ==
    (ApiCallSent \/ RequestSent) =>
        \A e \in Injected :
            /\ Selected.present
            /\ Truthy(Secret(Selected))
            /\ Includes(e.v.s, Secret(Selected))

\* C4: a make_api_call to an operation that declares an empty security
\* requirement list sends no credential: no header and no query parameter
\* beyond what the caller passed.
C4_NoCredentialWithoutRequirement ==
    ( /\ ApiCallSent
      /\ Target.op.security.present
      /\ Target.op.security.reqs = <<>> ) => Injected = {}

\* C5: when the selected AuthConfig is an apiKey with key k and name X (and
\* the operation asks for authentication), apiKeyIn = header sends exactly
\* the header X: k and no credential in the query, and apiKeyIn = query sends
\* exactly the query parameter X = k and no credential header.
C5_ApiKeyPlacement ==
    ( /\ ApiCallSent \/ RequestSent
      /\ Selected.present
      /\ Selected.type = "apiKey"
      /\ Truthy(Selected.apiKey) /\ Truthy(Selected.apiKeyName)
      /\ call.op = "make_api_call" => RequiredSchemes(Target.op, swaggerSpec) # <<>> )
    => LET credential == [k |-> Selected.apiKeyName, v |-> StringValue(Selected.apiKey)]
       IN  CASE Selected.apiKeyIn = "header" ->
                    InjectedHeaders = {credential} /\ InjectedParams = {}
             [] Selected.apiKeyIn = "query" ->
                    InjectedHeaders = {} /\ InjectedParams = {credential}
             [] OTHER -> TRUE

\* C6: a get-details or dispatch whose input names no endpoint, neither by
\* id nor by the fallback key, returns the "not found, use list" text and
\* issues no HTTP request.
C6_NotFoundIsGuidance ==
    /\ ( /\ call.op \in {"get_endpoint_details", "make_api_call"}
         /\ \A key \in VerbKeys : ~Names(call.input, key) )
       => call.result = EndpointNotFound /\ http = <<>>
    /\ ( /\ call.op \in {"get_request_details", "make_request"}
         /\ \A i \in DOMAIN requests : ~MatchesRequest(call.input, requests[i]) )
       => call.result = RequestNotFound /\ http = <<>>

\* C7: when the id supplied to get-details or dispatch is the id of an
\* endpoint, the endpoint resolved is one with that id, whatever path and
\* method (or name) are supplied with it.
C7_IdBeforeFallback ==
    /\ ( /\ call.op \in {"get_endpoint_details", "make_api_call"}
         /\ call.input.operationId.present
         /\ \E key \in VerbKeys : IdOf(key) = call.input.operationId.s )
       => /\ call.op = "get_endpoint_details"
             => /\ call.result.kind = "details"
                /\ call.result.operationId = call.input.operationId.s
          /\ call.op = "make_api_call"
             => /\ http # <<>>
                /\ \E key \in VerbKeys :
                      /\ IdOf(key) = call.input.operationId.s
                      /\ ItemOf(key).method = Sent.method
    /\ ( /\ call.op \in {"get_request_details", "make_request"}
         /\ call.input.requestId.present
         /\ \E i \in DOMAIN requests : requests[i].id = call.input.requestId.s )
       => /\ call.op = "get_request_details"
             => /\ call.result.kind = "details"
                /\ call.result.id = call.input.requestId.s
          /\ call.op = "make_request"
             => /\ http # <<>>
                /\ \E i \in DOMAIN requests :
                      /\ requests[i].id = call.input.requestId.s
                      /\ requests[i].method = Sent.method

\* C8: after a load the ids of the endpoints are pairwise distinct, in every
\* server class: the operation ids of an OpenAPI document, the request ids
\* of SimplePostmanMcpServer, the tool names of PostmanMcpServer.
C8_IdsDistinct ==
    loaded =>
        /\ variant \in OpenApiVariants
              => Distinct([i \in DOMAIN Operations(swaggerSpec.paths) |->
                              Operations(swaggerSpec.paths)[i].operationId])
        /\ variant = "SimplePostman"
              => Distinct([i \in DOMAIN requests |-> requests[i].id])
        /\ variant = "Postman" => Distinct(toolNames)

\* C9: list_endpoints without a filter and with a limit that does not cut
\* the list reports as many endpoints as the document has HTTP-verb keys
\* under its paths; keys that are not operations contribute none.
C9_OneEndpointPerVerbKey ==
    ( /\ call.op = "list_endpoints"
      /\ ~call.input.method.present
      /\ ~call.input.tag.present
      /\ call.input.limit > Cardinality(VerbKeys) )
    => /\ call.result.total = Cardinality(VerbKeys)
       /\ Len(call.result.endpoints) = Cardinality(VerbKeys)

\* the entry of a listing is the operation under this key
Shows(e, key) ==
    /\ e.path = PathOf(key)
    /\ e.method = ToUpperCase(ItemOf(key).method)

Anonymous(key) == ~Truthy(ItemOf(key).op.operationId)

MethodDashPath(key) == ItemOf(key).method \o <<"-">> \o PathOf(key)

\* C10: an operation without an operationId has the id "{method}-{path}",
\* method being its key in the path item and path its path template:
\* list_endpoints, search_endpoints and get_endpoint_details report this
\* string, and get_endpoint_details and make_api_call resolve the
\* operation when given it.
C10_MethodDashPath ==
    \A key \in VerbKeys :
        Anonymous(key) =>
            /\ call.op = "list_endpoints"
                  => \A e \in Range(call.result.endpoints) :
                        Shows(e, key) => e.operationId = MethodDashPath(key)
            /\ call.op = "search_endpoints"
                  => \A e \in Range(call.result.results) :
                        Shows(e, key) => e.operationId = MethodDashPath(key)
            /\ call.op = "get_endpoint_details" /\ call.result.kind = "details"
                  => (Shows(call.result, key)
                         => call.result.operationId = MethodDashPath(key))
            /\ ( /\ call.op = "get_endpoint_details"
                 /\ call.input.operationId = Str(MethodDashPath(key)) )
                  => /\ call.result.kind = "details"
                     /\ ~call.input.path.present => Shows(call.result, key)
            /\ ( /\ call.op = "make_api_call"
                 /\ call.input.operationId = Str(MethodDashPath(key)) )
                  => /\ http # <<>>
                     /\ ~call.input.path.present
                           => Sent.method = ItemOf(key).method

\* C10 witness: GET /pets, which has no operationId, is dispatched by the
\* id get-/pets alone.
C10_Witness ==
    /\ ApiCallSent
    /\ call.input.operationId = Str(Dash(S_get, P_pets))
    /\ ~call.input.path.present
    /\ Sent.url = BaseUrl \o P_pets
    /\ Sent.method = S_get

\* ---------------------------------------------------------------------------
\* Dispatch and the transport
\* ---------------------------------------------------------------------------

Dispatched == call.op \in {"make_api_call", "make_request"}

\* the dispatch input resolved to an endpoint of the loaded table
Resolved ==
    \/ call.op = "make_api_call" /\ Target.found
    \/ call.op = "make_request" /\ FindRequest(requests, call.input).found

\* the request a dispatch builds from its input and the loaded tables
RequestOf(op, input) ==
    IF op = "make_api_call"
    THEN ApiRequest(swaggerSpec, FindOperation(swaggerSpec.paths, input), input,
                    variant = "Swagger")
    ELSE PostmanRequest(requests[FindRequest(requests, input).index].request,
                        input.parameters, input.body, input.auth, environment)

\* the result a dispatch returns for the reply of the transport
ResultOf(op, reply) ==
    IF op = "make_api_call" THEN ApiCallResult(reply) ELSE RequestResult(reply)

\* the request the handler builds for the call it is serving
Built == RequestOf(call.op, call.input)

\* C11: a dispatch that resolved an endpoint has handed exactly one request
\* to the HTTP transport, the one it built, whether the transport answered
\* with a success, with a failure response or with no response at all; a
\* failure is not retried.
C11_ExactlyOneAttempt ==
    (Dispatched /\ Resolved) => http = <<Built>>

\* C11 witness: a resolved dispatch in each format whose transport failed,
\* with and without a response, and whose request went out once.
C11_Witness ==
    /\ Dispatched /\ Resolved
    /\ call.reply.kind \in {"failure", "noResponse"}
    /\ Len(http) = 1

\* the transport answered the Postman dispatch being served with a response
PostmanResponse ==
    /\ call.op = "make_request" /\ Resolved
    /\ call.reply.kind \in {"response", "failure"}

\* C12: the result of a Postman dispatch that received a response carries
\* the status, the headers and the data of that response, and carries the
\* error flag exactly when the transport raised the response as a failure;
\* the result of a success response has no error flag.
C12_ErrorFlagIffFailure ==
    PostmanResponse =>
        /\ call.result.kind = "response"
        /\ call.result.status = call.reply.status
        /\ call.result.headers = call.reply.headers
        /\ call.result.data = call.reply.data
        /\ call.result.error <=> call.reply.kind = "failure"

\* C12 witness: a response the transport classified as a failure although
\* its status is below 400, returned with the error flag.
C12_Witness ==
    /\ PostmanResponse
    /\ call.reply.kind = "failure" /\ call.reply.status < 400
    /\ call.result.error

\* the tables the loads build and the settings of the constructor
Tables == <<variant, apiBaseUrl, defaultAuth, loaded, swaggerSpec, collection, requests,
            toolNames, environment>>

\* the transport failed the dispatch being served without a response
NoResponse == Dispatched /\ Resolved /\ call.reply.kind = "noResponse"

\* C13: a dispatch whose transport failed without a response returns an
\* error result, not a response with status, headers and data; the server
\* is still connected, and when the result has been returned it is idle
\* over the same tables, so that what it serves next is what it would have
\* served had the dispatch not been made.
C13_HardFailureProcessAlive ==
    /\ [](NoResponse => call.result.kind = "error" /\ Serving)
    /\ [][NoResponse => Idle' /\ Serving' /\ UNCHANGED Tables]_vars

\* C13 witness: a dispatch in the OpenAPI format whose transport gave no
\* response, answered with an error result.
C13_Witness ==
    /\ NoResponse /\ call.op = "make_api_call"
    /\ call.result.kind = "error"

\* C13 witness of the other format.
C13_WitnessPostman ==
    /\ NoResponse /\ call.op = "make_request"
    /\ call.result.kind = "error"

\* the names the path tokens of the loaded locators use
TokenNames == {S_id, S_x, S_tenant, S_baseUrl}

\* the locator of the endpoint the dispatch resolved, as loaded
Locator ==
    IF call.op = "make_api_call" THEN Target.path
    ELSE requests[FindRequest(requests, call.input).index].request.url

\* the spellings of the token `name` that the locator holds
TokensOf(name) ==
    IF call.op = "make_api_call"
    THEN {t \in {Braced(name)} : name \in PathParams(Locator)}
    ELSE {t \in {Colon(name), DoubleBraced(name)} : Includes(Locator, t)}

\* neither the caller nor the Environment has a value for the token
Unmatched(name) ==
    /\ ~HasKey(call.input.parameters, name)
    /\ call.op = "make_request" => ~HasKey(environment, name)

\* C14: a dispatch that resolved is sent to the transport, and every token
\* of its locator for which the caller gave no parameter and the
\* Environment has no entry is in the outbound URL as it was written.
C14_UnmatchedTokenStaysLiteral ==
    (Dispatched /\ Resolved) =>
        /\ http # <<>>
        /\ \A name \in TokenNames :
              Unmatched(name) => \A t \in TokensOf(name) : Includes(Sent.url, t)

\* C15: a tool call is served only by a connected server, a server is
\* connected only with its load completed, the connection is made from the
\* start-up stage only, and a process that exited at a failed load stays
\* exited and never serves.
C15_NothingServedBeforeLoad ==
    /\ [](~Idle => stage = "connected")
    /\ [](stage = "connected" => loaded)
    /\ [][stage' = "connected" => loaded /\ stage \in {"starting", "connected"}]_vars
    /\ [][stage = "exited" => stage' = "exited" /\ Idle']_vars

\* C15 witness: a tool call being served by a server that connected after
\* its load.
C15_Witness ==
    /\ stage = "connected" /\ loaded
    /\ ~Idle

\* C15 witness of the failure: the process exited at a load that had
\* already assigned part of its table, and serves nothing.
C15_WitnessExit ==
    /\ stage = "exited" /\ ~loaded
    /\ collection # <<>> \/ swaggerSpec # EmptyDocument
    /\ Idle

\* ---------------------------------------------------------------------------
\* The loaded tables
\* ---------------------------------------------------------------------------

\* C16: a load leaves exactly what its input defines: an Environment that
\* changed holds the entries of the environment just loaded and no other,
\* a request table that changed is the parse of the collection just loaded,
\* a document that changed is the document just loaded.
C16_LoadReplaces ==
    [][/\ environment' # environment =>
              \E env \in Environments :
                  /\ environment' = Spread(environment, env)
                  /\ Range(environment') = Range(env)
       /\ requests' # requests => requests' = parseAllRequests(collection')
       /\ swaggerSpec' # swaggerSpec => swaggerSpec' \in Documents]_vars

\* C18: no step of a connected server changes a table; the request table
\* in use is the parse of the loaded collection and the document in use is
\* a loaded document; the output of get-details is the function of the
\* tables and the id that it was right after the load, whatever was served
\* in between.
C18_DetailsIdempotent ==
    /\ [][Serving => UNCHANGED Tables]_vars
    /\ [](Serving =>
            /\ variant = "SimplePostman" => requests = parseAllRequests(collection)
            /\ variant \in OpenApiVariants => swaggerSpec \in Documents)
    /\ [](call.op = "get_endpoint_details" =>
            call.result = EndpointDetailsResult(swaggerSpec, call.input,
                                                variant = "Swagger"))
    /\ [](call.op = "get_request_details" =>
            call.result = RequestDetailsResult(parseAllRequests(collection), call.input))

\* C18 witness: get-details answered with the details of a request.
C18_Witness ==
    /\ call.op = "get_request_details"
    /\ call.result.kind = "details"

\* C18 witness of the other format.
C18_WitnessOpenApi ==
    /\ call.op = "get_endpoint_details"
    /\ call.result.kind = "details"

\* ---------------------------------------------------------------------------
\* list and search
\* ---------------------------------------------------------------------------

\* the operation under a verb key satisfies the filters of the list call:
\* its method is the filter's, whatever the case, and one of its tags
\* contains the filter's text
EndpointSatisfies(input, key) ==
    /\ (input.method.present /\ Truthy(input.method.s)) =>
          ToLowerCase(ItemOf(key).method) = ToLowerCase(input.method.s)
    /\ (input.tag.present /\ Truthy(input.tag.s)) =>
          \E t \in Range(ItemOf(key).op.tags.list) : Includes(t, input.tag.s)

\* the request satisfies the filters of the list call: its method is the
\* filter's, whatever the case, and its folder contains the filter's text
RequestSatisfies(input, req) ==
    /\ (input.method.present /\ Truthy(input.method.s)) =>
          ToLowerCase(req.method) = ToLowerCase(input.method.s)
    /\ (input.folder.present /\ Truthy(input.folder.s)) =>
          Includes(ToLowerCase(req.folder), ToLowerCase(input.folder.s))

\* C19: every entry a list returns is an endpoint that satisfies the
\* filters, and a list that stayed below its limit returns every endpoint
\* that satisfies them; the tag and folder filters are substring matches.
C19_ListReturnsTheMatching ==
    /\ call.op = "list_endpoints" =>
          /\ \A e \in Range(call.result.endpoints) :
                \E key \in VerbKeys : /\ e = ListEntry(PathOf(key), ItemOf(key))
                                      /\ EndpointSatisfies(call.input, key)
          /\ Len(call.result.endpoints) < call.input.limit =>
                \A key \in VerbKeys :
                    EndpointSatisfies(call.input, key) =>
                        ListEntry(PathOf(key), ItemOf(key)) \in Range(call.result.endpoints)
    /\ call.op = "list_requests" =>
          /\ \A e \in Range(call.result.requests) :
                \E req \in Range(requests) : /\ e = RequestSummary(req)
                                             /\ RequestSatisfies(call.input, req)
          /\ Len(call.result.requests) < call.input.limit =>
                \A req \in Range(requests) :
                    RequestSatisfies(call.input, req) =>
                        RequestSummary(req) \in Range(call.result.requests)

\* the entries a list or a search returned
Returned ==
    CASE call.op = "list_endpoints" -> call.result.endpoints
      [] call.op = "list_requests" -> call.result.requests
      [] call.op \in {"search_endpoints", "search_requests"} -> call.result.results
      [] OTHER -> <<>>

\* C20: a list or a search returns no more entries than its limit, for
\* every limit, 0 included.
C20_NeverMoreThanLimit ==
    call.op \in {"list_endpoints", "list_requests", "search_endpoints", "search_requests"}
        => Len(Returned) <= call.input.limit

(***************************************************************************)
(* Dispatch calls in flight together                                       *)
(*                                                                         *)
(* A dispatch handler runs without suspension until `await axios(...)`:    *)
(* it builds its request in local variables, hands it to the transport and *)
(* suspends.  When the transport settles the request, the handler resumes  *)
(* with its own locals and returns.  Another handler may run in between.   *)
(***************************************************************************)
MaxInFlight == 2

ConcurrentApiInputs ==
    {[operationId |-> Str(S_getUser), path |-> Undefined, method |-> Undefined,
      parameters |-> <<Param(S_id, StringValue(S_42)), Param(S_verbose, TrueValue)>>,
      body |-> NoBody, auth |-> NoAuth],
     [operationId |-> Undefined, path |-> Str(P_pets), method |-> Str(S_post),
      parameters |-> <<>>, body |-> StringBody(<<"h","i">>), auth |-> BearerAuth(S_q)],
     [operationId |-> Str(Dash(S_get, P_pets)), path |-> Undefined, method |-> Undefined,
      parameters |-> <<Param(S_verbose, TrueValue)>>, body |-> NoBody, auth |-> NoAuth],
     [operationId |-> Str(Dash(S_get, P_a_x_x)), path |-> Undefined, method |-> Undefined,
      parameters |-> <<Param(S_verbose, TrueValue),
                       Param(S_x, StringValue(<<"a","/","b">>))>>,
      body |-> NoBody, auth |-> NoAuth],
     [operationId |-> Str(Dash(S_GET, P_a_xjson)), path |-> Undefined,
      method |-> Undefined, parameters |-> <<>>, body |-> NoBody, auth |-> NoAuth]}

ConcurrentRequestInputs ==
    {[requestId |-> Undefined, name |-> Str(S_GetUser),
      parameters |-> <<Param(S_id, StringValue(S_7))>>, body |-> NoBody, auth |-> NoAuth],
     [requestId |-> Str(<<"a","d","m","i","n","a","d","d">>), name |-> Undefined,
      parameters |-> <<>>, body |-> StringBody(<<"h","i">>), auth |-> BearerAuth(S_q)],
     [requestId |-> Undefined, name |-> Str(<<"a","b","1">>),
      parameters |-> <<Param(S_tenant, StringValue(<<"t","/","1">>))>>,
      body |-> NoBody, auth |-> NoAuth]}

RemoveAt(seq, i) == SubSeq(seq, 1, i - 1) \o SubSeq(seq, i + 1, Len(seq))

\* locals kept in one place for all calls, which the call begun last
\* overwrites; C17 must tell it from the code's
SharedFrame(frames, i) == frames[Len(frames)]

\* the locals a suspended handler resumes with: those of its own closure
Frame(frames, i) == frames[i]

\* make_api_call up to `await axios(...)`
SendApiCall ==
    /\ variant \in OpenApiVariants /\ Serving
    /\ Len(inflight) < MaxInFlight
    /\ \E input \in ConcurrentApiInputs :
          /\ FindOperation(swaggerSpec.paths, input).found
          /\ variant = "Swagger" => input.auth.type \in AuthTypes(swaggerSpec)
          /\ LET request == RequestOf("make_api_call", input)
             IN  /\ inflight' = Append(inflight, [op |-> "make_api_call", input |-> input,
                                                  request |-> request])
                 /\ http' = Append(http, request)
    /\ UNCHANGED <<Tables, call, stage>>

\* make_request up to `await axios(config)` in executeRequest
SendRequest ==
    /\ variant = "SimplePostman" /\ Serving
    /\ Len(inflight) < MaxInFlight
    /\ \E input \in ConcurrentRequestInputs :
          /\ FindRequest(requests, input).found
          /\ LET request == RequestOf("make_request", input)
             IN  /\ inflight' = Append(inflight, [op |-> "make_request", input |-> input,
                                                  request |-> request])
                 /\ http' = Append(http, request)
    /\ UNCHANGED <<Tables, call, stage>>

\* the transport settles the request of the i-th call in flight; its handler
\* resumes and returns.  `answered` is the request the transport answered.
Resume ==
    /\ \E i \in DOMAIN inflight, reply \in Replies :
          LET frame == Frame(inflight, i)
          IN  /\ call' = [op |-> frame.op, input |-> frame.input, reply |-> reply,
                          result |-> ResultOf(frame.op, reply),
                          request |-> frame.request, answered |-> http[i]]
              /\ inflight' = RemoveAt(inflight, i)
              /\ http' = RemoveAt(http, i)
    /\ UNCHANGED <<Tables, stage>>

ConcurrentNext ==
    \/ LoadSwaggerSpec
    \/ LoadCollection
    \/ LoadEnvironment
    \/ Connect
    \/ SendApiCall
    \/ SendRequest
    \/ Resume

ConcurrentSpec == Init /\ [][ConcurrentNext]_vars

\* C17: with dispatch calls in flight together, the request each one handed
\* to the transport is the request its own input builds from the loaded
\* tables, and a call that returned resumed with its own request, the one
\* the transport answered, and returned the result of its own reply.
C17_CallsIndependent ==
    /\ Len(http) = Len(inflight)
    /\ \A i \in DOMAIN inflight :
          /\ inflight[i].request = RequestOf(inflight[i].op, inflight[i].input)
          /\ http[i] = inflight[i].request
    /\ ~Idle =>
          /\ call.request = call.answered
          /\ call.request = RequestOf(call.op, call.input)
          /\ call.result = ResultOf(call.op, call.reply)

\* C17 witness: one call has returned while two calls with different
\* requests are suspended at the transport.
C17_Witness ==
    /\ Len(inflight) = 2
    /\ inflight[1].request # inflight[2].request
    /\ ~Idle

\* ---------------------------------------------------------------------------
\* search
\* ---------------------------------------------------------------------------

\* the text of an endpoint that search looks into: locator, summary,
\* description, tags or folder, and id, joined with single spaces, in lower case
Blob(locator, summary, description, tags, id) ==
    ToLowerCase(Join(<<locator, summary, description>> \o tags \o <<id>>, <<" ">>))

EndpointBlob(key) ==
    Blob(PathOf(key), ItemOf(key).op.summary, ItemOf(key).op.description,
         ItemOf(key).op.tags.list, IdOf(key))

RequestBlob(req) == Blob(req.url, req.name, req.description, <<req.folder>>, req.id)

\* C21: a search that stayed below its limit returns an endpoint exactly
\* when the query, in lower case, is a substring of the endpoint's blob of
\* locator, summary, description, tags or folder, and id; so a query equal
\* to the id of an endpoint returns that endpoint.
C21_SearchMatchesBlob ==
    /\ (call.op = "search_endpoints" /\ Len(call.result.results) < call.input.limit) =>
          \A key \in VerbKeys :
              SearchEntry(PathOf(key), ItemOf(key)) \in Range(call.result.results)
                  <=> Includes(EndpointBlob(key), ToLowerCase(call.input.query))
    /\ (call.op = "search_requests" /\ Len(call.result.results) < call.input.limit) =>
          \A req \in Range(requests) :
              RequestSummary(req) \in Range(call.result.results)
                  <=> Includes(RequestBlob(req), ToLowerCase(call.input.query))

(***************************************************************************)
(* calculateRelevance on its own                                           *)
(***************************************************************************)
T_update     == <<"u","p","d","a","t","e"," ","p","r","o","f","i","l","e">>
T_users_list == <<"u","s","e","r","s"," ","l","i","s","t">>
T_slash_user == <<"/","u","s","e","r","/"," ","g","e","t">>
T_superuser  == <<"s","u","p","e","r","u","s","e","r">>

RelevanceQueries ==
    {S_user, S_user \o <<" ">> \o S_user, T_get_user,
     <<"r","o","l","e","s"," ","l","i","s","t">>, <<"p","r","o","f","i","l","e">>}

RelevanceTexts ==
    {T_get_user, T_list_users, T_update, T_users_list, T_slash_user, T_superuser}

\* a query and a text (already in lower case, as both callers pass them)
\* handed to calculateRelevance
RelevanceInit ==
    /\ variant \in {"SimplePostman", "Swagger"}
    /\ apiBaseUrl = BaseUrl
    /\ defaultAuth = NoAuth
    /\ loaded = FALSE
    /\ swaggerSpec = EmptyDocument
    /\ collection = <<>>
    /\ requests = <<>>
    /\ toolNames = <<>>
    /\ environment = <<>>
    /\ \E query \in RelevanceQueries, text \in RelevanceTexts :
          call = [op |-> "none", input |-> [query |-> query, text |-> text],
                  reply |-> <<>>, result |-> [kind |-> "none"]]
    /\ http = <<>>
    /\ stage = "starting"
    /\ inflight = <<>>

CalculateRelevance ==
    /\ call.op = "none"
    /\ call' = [call EXCEPT
                   !.op = "calculateRelevance",
                   !.result = [kind |-> "score",
                               twice |-> calculateRelevance(call.input.query,
                                                            call.input.text)]]
    /\ UNCHANGED <<Tables, http, stage, inflight>>

RelevanceSpec == RelevanceInit /\ [][CalculateRelevance]_vars

\* the word occurs in the text with no word character next to it on either side
WholeWord(text, word) ==
    \E i \in 1..(Len(text) - Len(word) + 1) :
        /\ SubSeq(text, i, i + Len(word) - 1) = word
        /\ i = 1 \/ ~IsWordChar(text[i - 1])
        /\ i + Len(word) - 1 = Len(text) \/ ~IsWordChar(text[i + Len(word)])

\* twice the score of the rule: 1 for each distinct query word found in the
\* text, 0.5 more for each of them that is there as a whole word
TwiceTheScore(query, text) ==
    LET found == {word \in Range(Split(query, " ")) : Includes(text, word)}
    IN  2 * Cardinality(found) + Cardinality({word \in found : WholeWord(text, word)})

\* C22: the relevance of a text for a query is the number of distinct query
\* words found in the text plus 0.5 for each of them that is in the text as
\* a whole word.
C22_RelevanceScore ==
    call.op = "calculateRelevance" =>
        call.result.twice = TwiceTheScore(call.input.query, call.input.text)

\* the relevance of a returned entry for the query: the score of the rule
\* on the blob of the entry (twice, to stay in the integers)
EntryRelevance(e) ==
    TwiceTheScore(ToLowerCase(call.input.query),
                  IF call.op = "search_endpoints"
                  THEN Blob(e.path, e.summary, e.description, e.tags, e.operationId)
                  ELSE Blob(e.url, e.name, e.description, <<e.folder>>, e.id))

\* the places of the loaded table where the scan meets the entry
PlacesOf(e) ==
    IF call.op = "search_endpoints"
    THEN {<<i, j>> \in UNION {{<<i, j>> : j \in DOMAIN swaggerSpec.paths[i].items} :
                               i \in DOMAIN swaggerSpec.paths} :
             SearchEntry(swaggerSpec.paths[i].path, swaggerSpec.paths[i].items[j]) = e}
    ELSE {<<i, 0>> : i \in {k \in DOMAIN requests : RequestSummary(requests[k]) = e}}

\* the scan meets d before e
ScannedBefore(d, e) ==
    \E p \in PlacesOf(d), q \in PlacesOf(e) :
        p[1] < q[1] \/ (p[1] = q[1] /\ p[2] < q[2])

\* C23: the results of a search are in non-increasing order of relevance,
\* and two results of the same relevance are in the order of the scan.
C23_OrderedByRelevance ==
    call.op \in {"search_endpoints", "search_requests"} =>
        \A a, b \in DOMAIN call.result.results :
            a < b =>
                LET d == call.result.results[a]
                    e == call.result.results[b]
                IN  /\ EntryRelevance(d) >= EntryRelevance(e)
                    /\ EntryRelevance(d) = EntryRelevance(e) => ScannedBefore(d, e)

\* the requests of the table that match the query of the search being served
Matching ==
    SelectSeq(requests, LAMBDA req :
        Includes(RequestSearchText(req), ToLowerCase(call.input.query)))

\* C24: search_requests returns min(limit, number of matches) results, and
\* no match it left out has a higher relevance than one it returned: the
\* scan is complete, the cut comes after the sort.
C24_TruncatedAfterSort ==
    (call.op = "search_requests" /\ call.input.limit >= 1) =>
        /\ call.result.total =
              (IF Len(Matching) < call.input.limit THEN Len(Matching) ELSE call.input.limit)
        /\ \A i \in DOMAIN Matching :
              RequestSummary(Matching[i]) \notin Range(call.result.results) =>
                  \A e \in Range(call.result.results) :
                      \E k \in DOMAIN Matching :
                          /\ RequestSummary(Matching[k]) = e
                          /\ calculateRelevance(ToLowerCase(call.input.query),
                                                RequestSearchText(Matching[k]))
                                >= calculateRelevance(ToLowerCase(call.input.query),
                                                      RequestSearchText(Matching[i]))

\* ---------------------------------------------------------------------------
\* Content type and body of the outbound request
\* ---------------------------------------------------------------------------

\* the call names a content type itself: a parameter, or the API key of the
\* AuthConfig in use, is called Content-Type
ExplicitContentType ==
    \/ HasKey(call.input.parameters, ContentType)
    \/ /\ Selected.present /\ Selected.type = "apiKey"
       /\ Selected.apiKeyName = ContentType

DefaultContentType ==
    /\ HasKey(Sent.headers, ContentType)
    /\ Get(Sent.headers, ContentType) = StringValue(ApplicationJson)

\* C25: the outbound request of a dispatch has the header
\* Content-Type: application/json exactly when the call has a body and names
\* no content type itself.
C25_DefaultContentType ==
    (Dispatched /\ Resolved) =>
        (DefaultContentType <=> (call.input.body.present /\ ~ExplicitContentType))

\* C26: the outbound request of a dispatch carries a string body as the
\* caller gave it and any other body as its JSON text, and carries no body
\* only when the caller gave none.
C26_BodySerialized ==
    (Dispatched /\ Resolved) =>
        LET body == call.input.body
            text == IF body.t = "string" THEN body.s ELSE body.json
        IN  IF call.op = "make_request"
            THEN Sent.data = [present |-> body.present,
                              text |-> IF body.present THEN text ELSE <<>>]
            ELSE /\ Sent.data.present = body.present
                 /\ body.present => Sent.data.t = "string" /\ Sent.data.s = text

\* ---------------------------------------------------------------------------
\* The parameters of a Postman dispatch
\* ---------------------------------------------------------------------------

\* the request template the Postman dispatch being served resolved
Template == requests[FindRequest(requests, call.input).index].request

\* the URL of the template with its Environment variables resolved holds a
\* token for the parameter: executeRequest substitutes the parameter
IsPathVariable(key) ==
    LET url == resolveVariables(Template.url, environment)
    IN  \/ Includes(url, Colon(key))
        \/ Includes(url, DoubleBraced(key))
        \/ Includes(url, Braced(key))

\* C27: in a Postman dispatch a parameter that was substituted into the URL
\* is not in the query, a parameter sent as a header is not in the query,
\* and every other parameter is in the query.
C27_OneDestination ==
    RequestSent =>
        \A key \in Keys(call.input.parameters) :
            IF IsPathVariable(key) \/ HasKey(Sent.headers, key)
            THEN ~HasKey(Sent.params, key)
            ELSE HasKey(Sent.params, key)

\* the value the rule gives a {{name}} token: the caller's when there is
\* one, else the Environment's, whatever it is; the token itself when neither
TokenValue(name, match) ==
    IF HasKey(call.input.parameters, name)
    THEN EncodeURIComponent(StringOf(Get(call.input.parameters, name)))
    ELSE IF HasKey(environment, name) THEN Get(environment, name)
    ELSE match

\* every {{name}} token of the text replaced by its TokenValue, left to right
RECURSIVE ResolveTokens(_)
ResolveTokens(text) ==
    IF text = <<>> THEN text
    ELSE LET rest == SubSeq(text, 3, Len(text))
             n    == WordPrefixLen(rest)
         IN  IF /\ StartsWith(text, <<"{","{">>)
                /\ n >= 1
                /\ StartsWith(SubSeq(rest, n + 1, Len(rest)), <<"}","}">>)
             THEN TokenValue(SubSeq(rest, 1, n), SubSeq(text, 1, n + 4))
                  \o ResolveTokens(SubSeq(rest, n + 3, Len(rest)))
             ELSE <<Head(text)>> \o ResolveTokens(Tail(text))

\* C28: the outbound URL of a Postman dispatch is the URL of the template
\* with every {{var}} token replaced by the caller's parameter of that name
\* when there is one, and otherwise by the Environment entry of that name
\* when there is one, even an empty one; the other path variables are
\* substituted afterwards.
C28_CallerOverridesEnvironment ==
    RequestSent =>
        Sent.url = SubstituteParameters(ResolveTokens(Template.url), call.input.parameters)

\* ---------------------------------------------------------------------------
\* auth of type none
\* ---------------------------------------------------------------------------

\* the credentials the make_api_call handler of SimpleSwaggerMcpServer
\* sends for a per-call auth
CredentialsOpenApi(auth) ==
    Range(getAuthHeaders(AuthArgument(auth))) \cup Range(getAuthQueryParams(AuthArgument(auth)))

\* the credentials executeRequest of SimplePostmanMcpServer sends for it
CredentialsPostman(auth) ==
    Range(getAuthHeaders(auth)) \cup Range(getAuthQueryParams(auth))

\* C29: the credentials a dispatch with the per-call auth {type: none}
\* sends are those the server of the other format sends for it with the
\* same default AuthConfig.
C29_NoneAuthSameInBothFormats ==
    (Dispatched /\ Resolved /\ call.input.auth.present /\ call.input.auth.type = "none") =>
        /\ variant = "SimpleSwagger" => Injected = CredentialsPostman(call.input.auth)
        /\ variant = "SimplePostman" => Injected = CredentialsOpenApi(call.input.auth)

\* ---------------------------------------------------------------------------
\* Postman identifiers
\* ---------------------------------------------------------------------------

\* only [A-Za-z0-9_], no two underscores in a row, none at either end
Normalized(id) ==
    /\ \A i \in DOMAIN id : IsWordChar(id[i])
    /\ ~Includes(id, <<"_","_">>)
    /\ id # <<>> => id[1] # "_" /\ id[Len(id)] # "_"

\* C30: every request id of SimplePostmanMcpServer and every tool name of
\* PostmanMcpServer is normalized.
C30_IdentifiersNormalized ==
    /\ \A i \in DOMAIN requests : Normalized(requests[i].id)
    /\ \A i \in DOMAIN toolNames : Normalized(toolNames[i])

=============================================================================
